---- MODULE Spec2Model ----
(***************************************************************************)
(* Bank-statement transaction extraction engine: the line-oriented         *)
(* extractor (backend/extractors/regex_extractor.py), its category state   *)
(* tracker and sign rules (backend/extractors/financial_rules.py), the     *)
(* validator (backend/validators/financial_validator.py) and the keyword   *)
(* filter (backend/main.py).                                               *)
(*                                                                         *)
(* Text is modelled at character level: a Python str is a sequence of      *)
(* one-character strings, so that the regular expressions, strip(),        *)
(* lower(), slicing and joining of the code are computed, not assumed.     *)
(* A float amount is a record [neg, cents]: its sign bit and its magnitude *)
(* in whole cents (the sign bit keeps IEEE negative zero apart from zero). *)
(* An Optional value is a sequence of length 0 (None) or 1.                *)
(***************************************************************************)
EXTENDS Integers, Sequences, FiniteSets, TLC

VARIABLES
    pc,                   \* position of the caller: idle, scan, returned, validated
    nonblank,             \* input: some line handed over so far is not whitespace-only
    current_state,        \* CategoryState.current_state
    current_category,     \* CategoryState.current_category (Optional)
    state_history,        \* CategoryState._state_history
    transactions,         \* TransactionExtractor.transactions
    current_transaction,  \* TransactionExtractor.current_transaction (Optional)
    pending_date,         \* TransactionExtractor.pending_date (Optional)
    pending_description,  \* TransactionExtractor.pending_description
    stats,                \* TransactionExtractor.stats
    result,               \* value returned by extract_transactions
    last_line,            \* history: the line handed to the last _process_line call
    origin,               \* history: for each emitted transaction, how it was built
    accepted,             \* history: number of anchors accepted so far
    strict_mode,          \* TransactionValidator.strict_mode
    allow_zero_amounts,   \* TransactionValidator.allow_zero_amounts
    validation_stats,     \* TransactionValidator.validation_stats
    valid_transactions,   \* value returned by validate_transactions (Optional)
    f_transactions,       \* filter_by_keywords: argument transactions
    f_keywords,           \* filter_by_keywords: argument keywords
    f_result,             \* filter_by_keywords: returned dict (Optional)
    d_transactions,       \* filter_by_date_range: argument transactions
    d_start,              \* filter_by_date_range: argument start_month
    d_end,                \* filter_by_date_range: argument end_month
    d_result,             \* filter_by_date_range: returned list (Optional)
    g_input,              \* group_by_bank_month_type: argument transactions_by_bank
    g_result,             \* group_by_bank_month_type: returned dict (Optional)
    run_text,             \* the text handed to the extraction calls, as its lines
    run_calls,            \* the extraction calls made so far and what they returned
    u_line,               \* update_state: argument line
    u_ret,                \* update_state: returned bool (Optional)
    v_input,              \* validator called directly: argument transactions
    v_ret,                \* validate_transaction: returned bool (Optional)
    faulted,              \* per line of the loop: whether _process_line raised
    p_args,               \* process: its arguments and what its collaborators do
    p_out,                \* process: exception, stages run, statistics, report
    m_amount,             \* amount handed to apply_sign_to_amount / format_amount_display
    m_display,            \* format_amount_display: returned string (Optional)
    em_date_str,          \* _extract_month: argument date_str
    em_month              \* _extract_month: returned string (Optional)

evars == <<current_state, current_category, state_history, transactions,
           current_transaction, pending_date, pending_description, stats,
           result, last_line, origin, accepted, nonblank>>
vvars == <<strict_mode, allow_zero_amounts, validation_stats, valid_transactions>>
fvars == <<f_transactions, f_keywords, f_result>>
dvars == <<d_transactions, d_start, d_end, d_result>>
gvars == <<g_input, g_result>>
rvars == <<run_text, run_calls>>
uvars == <<u_line, u_ret>>
ivars == <<v_input, v_ret>>
pvars == <<p_args, p_out>>
mvars == <<m_amount, m_display>>
tvars == <<em_date_str, em_month>>
xvars == <<dvars, gvars, rvars, uvars, ivars, faulted, pvars, mvars, tvars>>
vars == <<pc, evars, vvars, fvars, xvars>>

---------------------------------------------------------------------------
(* Bounds of the model *)

MaxLines == 5       \* lines of one statement text
MaxTxns == 2        \* transactions handed to filter_by_keywords
MaxKeywords == 2    \* keywords handed to filter_by_keywords
MaxRunLines == 3    \* lines of the text that is extracted twice

(* datetime.now().year *)
CurrentYear == 2026

---------------------------------------------------------------------------
(* Strings *)

S2C(s) == [i \in 1..Len(s) |-> SubSeq(s, i, i)]

None == <<>>
Some(x) == <<x>>

Digit == {"0", "1", "2", "3", "4", "5", "6", "7", "8", "9"}
DigitSeq == S2C("0123456789")
UpperSeq == S2C("ABCDEFGHIJKLMNOPQRSTUVWXYZ")
LowerSeq == S2C("abcdefghijklmnopqrstuvwxyz")
Upper == {UpperSeq[i] : i \in 1..26}
Lower == {LowerSeq[i] : i \in 1..26}
Alpha == Upper \cup Lower
WordChar == Alpha \cup Digit \cup {"_"}
Whitespace == {" ", "\t"}

SetMin(S) == CHOOSE x \in S : \A y \in S : x <= y
SetMax(S) == CHOOSE x \in S : \A y \in S : x >= y

(* str.lstrip(), str.rstrip(), str.strip() *)
RECURSIVE LStrip(_)
LStrip(s) == IF s # <<>> /\ s[1] \in Whitespace THEN LStrip(Tail(s)) ELSE s
RECURSIVE RStrip(_)
RStrip(s) ==
    IF s # <<>> /\ s[Len(s)] \in Whitespace THEN RStrip(SubSeq(s, 1, Len(s) - 1)) ELSE s
Strip(s) == RStrip(LStrip(s))

(* str.lower() *)
LowerOf == [c \in Upper |-> LowerSeq[CHOOSE i \in 1..26 : UpperSeq[i] = c]]
LowerChar(c) == IF c \in Upper THEN LowerOf[c] ELSE c
ToLower(s) == [i \in 1..Len(s) |-> LowerChar(s[i])]

(* needle in hay *)
Contains(hay, needle) ==
    \E i \in 0..(Len(hay) - Len(needle)) : \A k \in 1..Len(needle) : hay[i + k] = needle[k]

(* ' '.join(parts) *)
RECURSIVE JoinSpace(_)
JoinSpace(parts) ==
    IF parts = <<>> THEN <<>>
    ELSE IF Len(parts) = 1 THEN parts[1]
    ELSE parts[1] \o <<" ">> \o JoinSpace(Tail(parts))

(* str.split(sep) for a one-character separator *)
RECURSIVE Split(_, _)
Split(s, sep) ==
    LET at == {i \in 1..Len(s) : s[i] = sep}
        first == SetMin(at)
    IN  IF at = {} THEN <<s>>
        ELSE <<SubSeq(s, 1, first - 1)>> \o Split(SubSeq(s, first + 1, Len(s)), sep)

DigitValOf == [c \in Digit |-> (CHOOSE i \in 1..10 : DigitSeq[i] = c) - 1]
DigitVal(c) == DigitValOf[c]

(* int(s) for a string of digits *)
RECURSIVE DigitsToNat(_)
DigitsToNat(s) ==
    IF s = <<>> THEN 0
    ELSE 10 * DigitsToNat(SubSeq(s, 1, Len(s) - 1)) + DigitVal(s[Len(s)])

(* str(n) for n >= 0 *)
RECURSIVE NatToStr(_)
NatToStr(n) ==
    IF n < 10 THEN <<DigitSeq[n + 1]>>
    ELSE NatToStr(n \div 10) \o <<DigitSeq[(n % 10) + 1]>>

IsDigitAt(s, i) == i >= 1 /\ i <= Len(s) /\ s[i] \in Digit
DigitsAt(s, i, n) == \A k \in 0..(n - 1) : IsDigitAt(s, i + k)
AllDigits(s) == \A i \in 1..Len(s) : s[i] \in Digit

---------------------------------------------------------------------------
(* Regular expressions of the extractor *)

DateSep == {"/", "-"}
SepAt(s, i) == i >= 1 /\ i <= Len(s) /\ s[i] \in DateSep

(* Lengths of the prefixes of s that \d{a}[/-]\d{b}[/-]\d{c} matches,
   a in A, b in B, c in C. *)
Date3(s, A, B, C) ==
    {t[1] + t[2] + t[3] + 2 : t \in
        {u \in A \X B \X C :
            /\ DigitsAt(s, 1, u[1]) /\ SepAt(s, u[1] + 1)
            /\ DigitsAt(s, u[1] + 2, u[2]) /\ SepAt(s, u[1] + u[2] + 2)
            /\ DigitsAt(s, u[1] + u[2] + 3, u[3])}}

(* Lengths of the prefixes of s that \d{a}[/-]\d{b} matches. *)
Date2(s, A, B) ==
    {t[1] + t[2] + 1 : t \in
        {u \in A \X B :
            DigitsAt(s, 1, u[1]) /\ SepAt(s, u[1] + 1) /\ DigitsAt(s, u[1] + 2, u[2])}}

(* DATE_PATTERN.match(s): the length of group(1), 0 when there is no match.
   The alternatives are tried in order and each quantifier is greedy. *)
DATE_PATTERN(s) ==
    LET mdy4 == Date3(s, {1, 2}, {1, 2}, {4})
        mdy2 == Date3(s, {1, 2}, {1, 2}, {2})
        ymd == Date3(s, {4}, {1, 2}, {1, 2})
        md == Date2(s, {1, 2}, {1, 2})
    IN  IF ~IsDigitAt(s, 1) THEN 0
        ELSE IF mdy4 # {} THEN SetMax(mdy4)
        ELSE IF mdy2 # {} THEN SetMax(mdy2)
        ELSE IF ymd # {} THEN SetMax(ymd)
        ELSE IF md # {} THEN SetMax(md)
        ELSE 0

WordAt(s, i) == i >= 1 /\ i <= Len(s) /\ s[i] \in WordChar
(* \b between the characters i-1 and i *)
Boundary(s, i) == WordAt(s, i - 1) # WordAt(s, i)

(* Positions that (?:,\d{3})* can reach from j *)
RECURSIVE GroupEnds(_, _)
GroupEnds(s, j) ==
    {j} \cup (IF j <= Len(s) /\ s[j] = "," /\ DigitsAt(s, j + 1, 3)
              THEN GroupEnds(s, j + 4) ELSE {})

(* Positions that \d{1,3}(?:,\d{3})* can reach from i *)
IntEnds(s, i) == UNION {GroupEnds(s, i + n) : n \in {m \in 1..3 : DigitsAt(s, i, m)}}

(* Positions that \d{1,3}(?:,\d{3})*\.\d{2} can reach from i *)
DecimalEnds(s, i) ==
    {j + 3 : j \in {k \in IntEnds(s, i) : k <= Len(s) /\ s[k] = "." /\ DigitsAt(s, k + 1, 2)}}

AmountMatchEnd_no_boundary(s, i) ==
    LET ends == {e \in DecimalEnds(s, i) : Boundary(s, e)}
    IN  IF IsDigitAt(s, i) /\ ends # {} THEN SetMax(ends) ELSE 0

(* AMOUNT_PATTERN matched at position i: the position after the match, 0 when
   it does not match there. *)
AmountMatchEnd(s, i) ==
    LET ends == {e \in DecimalEnds(s, i) : Boundary(s, e)}
    IN  IF IsDigitAt(s, i) /\ Boundary(s, i) /\ ends # {} THEN SetMax(ends) ELSE 0

(* AMOUNT_PATTERN.finditer(s) from position i: the matches <<start, end>>,
   left to right, each search resuming where the previous match ended. *)
RECURSIVE FindAmounts(_, _)
FindAmounts(s, i) ==
    IF i > Len(s) THEN <<>>
    ELSE LET e == AmountMatchEnd(s, i)
         IN  IF e > 0 THEN <<<<i, e>>>> \o FindAmounts(s, e)
             ELSE FindAmounts(s, i + 1)

(* AMOUNT_PATTERN.search(s) *)
AMOUNT_PATTERN(s) == FindAmounts(s, 1) # <<>>

(* re.match(r'^\s*(\d{1,3}(?:,\d{3})*(?:\.\d{2})?)\s*$', line): group(1) when it
   matches (Optional). *)
AmountOnlyMatch(line) ==
    LET t == Strip(line)
        whole == (Len(t) + 1) \in (IntEnds(t, 1) \cup DecimalEnds(t, 1))
    IN  IF whole THEN Some(t) ELSE None

(* re.match(r'^\s*\$?\s*\d{1,3}(?:,\d{3})*\.\d{2}\s*$', line) *)
StandaloneAmount(line) ==
    LET t == Strip(line)
        u == IF t # <<>> /\ t[1] = "$" THEN Strip(Tail(t)) ELSE t
    IN  (Len(u) + 1) \in DecimalEnds(u, 1)

NotComma(c) == c # ","

(* _parse_amount: the commas are removed and the rest is read as a number.
   [ok, cents]: ok is FALSE where float() raises ValueError. *)
_parse_amount(amount_str) ==
    LET clean == SelectSeq(amount_str, NotComma)
        parts == Split(clean, ".")
    IN  IF Len(parts) = 1 /\ parts[1] # <<>> /\ AllDigits(parts[1])
        THEN [ok |-> TRUE, cents |-> 100 * DigitsToNat(parts[1])]
        ELSE IF /\ Len(parts) = 2 /\ parts[1] # <<>> /\ AllDigits(parts[1])
                /\ Len(parts[2]) = 2 /\ AllDigits(parts[2])
        THEN [ok |-> TRUE, cents |-> 100 * DigitsToNat(parts[1]) + DigitsToNat(parts[2])]
        ELSE [ok |-> FALSE, cents |-> 0]

---------------------------------------------------------------------------
(* Category state tracker and sign rules (financial_rules.py) *)

CREDIT == "credit"
DEBIT == "debit"
UNKNOWN == "unknown"

CREDIT_HEADERS ==
    {S2C("deposits and additions"), S2C("deposits and other credits"),
     S2C("deposits & additions"), S2C("deposits & other credits"),
     S2C("credits"), S2C("deposits")}

DEBIT_HEADERS ==
    {S2C("electronic withdrawals"), S2C("withdrawals and other debits"),
     S2C("withdrawals & other debits"), S2C("electronic withdrawals & debits"),
     S2C("debits"), S2C("withdrawals"), S2C("checks paid"), S2C("atm withdrawals")}

(* update_state recording the lower-cased text as the category label *)
update_state_lowered(line, cs) ==
    LET line_lower == ToLower(Strip(line))
    IN  IF line_lower \in CREDIT_HEADERS
        THEN [ret |-> TRUE, current_state |-> CREDIT,
              current_category |-> Some(line_lower),
              state_history |-> Append(cs.state_history, <<"CREDIT", line_lower>>)]
        ELSE IF line_lower \in DEBIT_HEADERS
        THEN [ret |-> TRUE, current_state |-> DEBIT,
              current_category |-> Some(line_lower),
              state_history |-> Append(cs.state_history, <<"DEBIT", line_lower>>)]
        ELSE [ret |-> FALSE, current_state |-> cs.current_state,
              current_category |-> cs.current_category,
              state_history |-> cs.state_history]

(* update_state forgetting the category on a line that is no header *)
update_state_resets(line, cs) ==
    LET line_lower == ToLower(Strip(line))
    IN  IF line_lower \in CREDIT_HEADERS
        THEN [ret |-> TRUE, current_state |-> CREDIT,
              current_category |-> Some(Strip(line)),
              state_history |-> Append(cs.state_history, <<"CREDIT", Strip(line)>>)]
        ELSE IF line_lower \in DEBIT_HEADERS
        THEN [ret |-> TRUE, current_state |-> DEBIT,
              current_category |-> Some(Strip(line)),
              state_history |-> Append(cs.state_history, <<"DEBIT", Strip(line)>>)]
        ELSE [ret |-> FALSE, current_state |-> UNKNOWN,
              current_category |-> None,
              state_history |-> cs.state_history]

(* CategoryState.update_state applied to the category state cs: the returned
   bool (ret) and the category state afterwards. *)
update_state(line, cs) ==
    LET line_lower == ToLower(Strip(line))
    IN  IF line_lower \in CREDIT_HEADERS
        THEN [ret |-> TRUE, current_state |-> CREDIT,
              current_category |-> Some(Strip(line)),
              state_history |-> Append(cs.state_history, <<"CREDIT", Strip(line)>>)]
        ELSE IF line_lower \in DEBIT_HEADERS
        THEN [ret |-> TRUE, current_state |-> DEBIT,
              current_category |-> Some(Strip(line)),
              state_history |-> Append(cs.state_history, <<"DEBIT", Strip(line)>>)]
        ELSE [ret |-> FALSE, current_state |-> cs.current_state,
              current_category |-> cs.current_category,
              state_history |-> cs.state_history]

(* The category state of the extractor *)
category_state ==
    [current_state |-> current_state, current_category |-> current_category,
     state_history |-> state_history]

is_valid_state_always(state) == TRUE

(* CategoryState.is_valid_state *)
is_valid_state(state) == state # UNKNOWN

(* Comparisons of a float [neg, cents] with zero *)
GE0(a) == ~a.neg \/ a.cents = 0
LT0(a) == a.neg /\ a.cents > 0
IsZero(a) == a.cents = 0

Float(cents) == [neg |-> FALSE, cents |-> cents]

(* apply_sign_to_amount *)
apply_sign_to_amount(amount, transaction_type) ==
    LET abs == [neg |-> FALSE, cents |-> amount.cents]
    IN  IF transaction_type = CREDIT THEN abs
        ELSE IF transaction_type = DEBIT THEN [neg |-> ~abs.neg, cents |-> abs.cents]
        ELSE abs

(* f"{amount:.2f}" *)
Fixed2(a) ==
    (IF a.neg THEN <<"-">> ELSE <<>>)
        \o NatToStr(a.cents \div 100) \o <<".">>
        \o <<DigitSeq[((a.cents % 100) \div 10) + 1], DigitSeq[(a.cents % 10) + 1]>>

(* format_amount_display *)
format_amount_display(amount) ==
    IF GE0(amount) THEN <<"+">> \o Fixed2(amount) ELSE Fixed2(amount)

---------------------------------------------------------------------------
(* Transaction and TransactionExtractor (regex_extractor.py) *)

(* Transaction.__init__ *)
Transaction(date, description, amount, transaction_type, category) ==
    [date |-> date, description |-> Strip(description), amount |-> amount,
     amount_display |-> format_amount_display(amount),
     type |-> transaction_type, category |-> category]

COLUMN_HEADERS ==
    {S2C("date"), S2C("description"), S2C("amount"), S2C("transaction"),
     S2C("details"), S2C("debit"), S2C("credit")}

skip_keywords ==
    {S2C("total"), S2C("balance"), S2C("subtotal"), S2C("page total"),
     S2C("grand total"), S2C("ending balance"), S2C("beginning balance"),
     S2C("current balance"), S2C("daily balance"), S2C("running balance")}

stop_keywords ==
    {S2C("total"), S2C("subtotal"), S2C("balance"), S2C("account #"),
     S2C("account number"), S2C("page"), S2C("continued"), S2C("security"),
     S2C("for information"), S2C("for questions"), S2C("service fees"),
     S2C("interest earned"), S2C("deposits"), S2C("withdrawals"),
     S2C("beginning balance"), S2C("ending balance"), S2C("daily balance"),
     S2C("year-to-date"), S2C("previous balance"), S2C("new balance"),
     S2C("please see"), S2C("visit us"), S2C("call us"), S2C("contact us"),
     S2C("business purposes"), S2C("check your"), S2C("account security")}

NoDescription == S2C("[No description]")

(* _is_transaction_anchor *)
_is_transaction_anchor(line) == DATE_PATTERN(line) > 0 /\ AMOUNT_PATTERN(line)

(* The extractor object: its fields, with the history variables origin and
   accepted carried along. *)
Self ==
    [current_state |-> current_state, current_category |-> current_category,
     state_history |-> state_history, transactions |-> transactions,
     current_transaction |-> current_transaction, pending_date |-> pending_date,
     pending_description |-> pending_description, stats |-> stats,
     origin |-> origin, accepted |-> accepted]

CategoryOf(self) ==
    [current_state |-> self.current_state, current_category |-> self.current_category,
     state_history |-> self.state_history]

WithCategory(self, cs) ==
    [self EXCEPT !.current_state = cs.current_state,
                 !.current_category = cs.current_category,
                 !.state_history = cs.state_history]

first_match_of(matches) == matches[1]

(* _parse_transaction_anchor, last_match = matches[-1] *)
last_match_of(matches) == matches[Len(matches)]

(* _parse_transaction_anchor without the check of the summary keywords *)
_parse_transaction_anchor_no_keywords(self, line) ==
    LET date_len == DATE_PATTERN(line)
        date_str == SubSeq(line, 1, date_len)
        remaining == Strip(SubSeq(line, Len(date_str) + 1, Len(line)))
        matches == FindAmounts(remaining, 1)
        last_match == last_match_of(matches)
        amount_str == SubSeq(remaining, last_match[1], last_match[2] - 1)
        amount == _parse_amount(amount_str)
        description == Strip(SubSeq(remaining, 1, last_match[1] - 1))
        desc_lower == ToLower(description)
    IN  IF date_len = 0 THEN self
        ELSE IF remaining = <<>> THEN self
        ELSE IF matches = <<>> THEN self
        ELSE IF ~amount.ok THEN self
        ELSE IF description = <<>> \/ Len(description) < 3 THEN self
        ELSE [self EXCEPT
                !.current_transaction =
                    Some([date |-> date_str,
                          description |-> description,
                          amount |-> apply_sign_to_amount(Float(amount.cents),
                                                          self.current_state),
                          type |-> self.current_state,
                          category |-> self.current_category]),
                !.accepted = @ + 1]

(* _parse_transaction_anchor: the extractor after the call. Its handler of
   unexpected exceptions is not modelled: no statement of the body raises one. *)
_parse_transaction_anchor(self, line) ==
    LET date_len == DATE_PATTERN(line)
        date_str == SubSeq(line, 1, date_len)
        remaining == Strip(SubSeq(line, Len(date_str) + 1, Len(line)))
        matches == FindAmounts(remaining, 1)
        last_match == last_match_of(matches)
        amount_str == SubSeq(remaining, last_match[1], last_match[2] - 1)
        amount == _parse_amount(amount_str)
        description == Strip(SubSeq(remaining, 1, last_match[1] - 1))
        desc_lower == ToLower(description)
    IN  IF date_len = 0 THEN self
        ELSE IF remaining = <<>> THEN self
        ELSE IF matches = <<>> THEN self
        ELSE IF ~amount.ok THEN self
        ELSE IF description = <<>> \/ Len(description) < 3 THEN self
        ELSE IF \E keyword \in skip_keywords : Contains(desc_lower, keyword) THEN self
        ELSE [self EXCEPT
                !.current_transaction =
                    Some([date |-> date_str,
                          description |-> description,
                          amount |-> apply_sign_to_amount(Float(amount.cents),
                                                          self.current_state),
                          type |-> self.current_state,
                          category |-> self.current_category]),
                !.accepted = @ + 1]

(* _is_continuation_line: the returned bool (ret) and the extractor after the
   call, which runs update_state on the line. *)
_is_continuation_line(self, line) ==
    LET upd == update_state(line, CategoryOf(self))
        lower_line == ToLower(line)
    IN  IF Strip(line) = <<>> THEN [ret |-> FALSE, self |-> self]
        ELSE IF DATE_PATTERN(line) > 0 THEN [ret |-> FALSE, self |-> self]
        ELSE IF upd.ret THEN [ret |-> FALSE, self |-> WithCategory(self, upd)]
        ELSE IF StandaloneAmount(line) THEN [ret |-> FALSE, self |-> self]
        ELSE IF \E keyword \in stop_keywords : Contains(lower_line, keyword)
             THEN [ret |-> FALSE, self |-> self]
        ELSE IF ~\E i \in 1..Len(line) : line[i] \in Alpha THEN [ret |-> FALSE, self |-> self]
        ELSE IF line[1] \notin (Whitespace \cup WordChar) THEN [ret |-> FALSE, self |-> self]
        ELSE [ret |-> TRUE, self |-> self]

(* _append_to_description joining the line without a space *)
_append_to_description_glued(self, line) ==
    IF self.current_transaction = None THEN self
    ELSE [self EXCEPT
            !.current_transaction[1].description = @ \o Strip(line),
            !.stats.multi_line_merges = @ + 1]

(* _append_to_description *)
_append_to_description(self, line) ==
    IF self.current_transaction = None THEN self
    ELSE [self EXCEPT
            !.current_transaction[1].description = @ \o <<" ">> \o Strip(line),
            !.stats.multi_line_merges = @ + 1]

_finalize_transaction_keeps(self) ==
    IF self.current_transaction = None THEN self
    ELSE [self EXCEPT
            !.transactions =
                Append(@, Transaction(self.current_transaction[1].date,
                                      self.current_transaction[1].description,
                                      self.current_transaction[1].amount,
                                      self.current_transaction[1].type,
                                      self.current_transaction[1].category)),
            !.stats.transactions_found = @ + 1,
            !.origin = Append(@, [kind |-> "anchor", id |-> self.accepted])]

(* _finalize_transaction *)
_finalize_transaction(self) ==
    IF self.current_transaction = None THEN self
    ELSE [self EXCEPT
            !.transactions =
                Append(@, Transaction(self.current_transaction[1].date,
                                      self.current_transaction[1].description,
                                      self.current_transaction[1].amount,
                                      self.current_transaction[1].type,
                                      self.current_transaction[1].category)),
            !.stats.transactions_found = @ + 1,
            !.current_transaction = None,
            !.origin = Append(@, [kind |-> "anchor", id |-> self.accepted])]

_finalize_pending_emits(self) ==
    IF self.pending_date = None THEN self
    ELSE [self EXCEPT
            !.transactions =
                Append(@, Transaction(self.pending_date[1],
                                      JoinSpace(self.pending_description),
                                      Float(0), self.current_state,
                                      self.current_category)),
            !.origin = Append(@, [kind |-> "stacked", id |-> 0]),
            !.pending_date = None, !.pending_description = <<>>]

(* _finalize_pending_transaction *)
_finalize_pending_transaction(self) ==
    [self EXCEPT !.pending_date = None, !.pending_description = <<>>]

(* The amount-only line closing the draft without the placeholder *)
ClosePending_no_placeholder(self, amount_str) ==
    LET amount == _parse_amount(amount_str)
        description == Strip(JoinSpace(self.pending_description))
        signed_amount == apply_sign_to_amount(Float(amount.cents), self.current_state)
        date_parts == Split(self.pending_date[1], "/")
        full_date == IF Len(date_parts) = 2
                     THEN self.pending_date[1] \o <<"/">> \o NatToStr(CurrentYear)
                     ELSE self.pending_date[1]
    IN  IF amount.ok
        THEN [self EXCEPT
                !.transactions =
                    Append(@, Transaction(full_date, description, signed_amount,
                                          self.current_state, self.current_category)),
                !.stats.transactions_found = @ + 1,
                !.pending_date = None,
                !.pending_description = <<>>,
                !.origin = Append(@, [kind |-> "stacked", id |-> 0])]
        ELSE [self EXCEPT !.pending_date = None, !.pending_description = <<>>]

ClosePending_no_reset(self, amount_str) ==
    LET amount == _parse_amount(amount_str)
        joined == Strip(JoinSpace(self.pending_description))
        description == IF joined = <<>> THEN NoDescription ELSE joined
    IN  IF amount.ok
        THEN [self EXCEPT
                !.transactions =
                    Append(@, Transaction(self.pending_date[1], description,
                                          apply_sign_to_amount(Float(amount.cents),
                                                               self.current_state),
                                          self.current_state, self.current_category)),
                !.stats.transactions_found = @ + 1,
                !.origin = Append(@, [kind |-> "stacked", id |-> 0])]
        ELSE self

(* _process_line, the amount-only line that closes the pending draft
   (amount_str is group(1) of the amount-only pattern) *)
ClosePending(self, amount_str) ==
    LET amount == _parse_amount(amount_str)
        joined == Strip(JoinSpace(self.pending_description))
        description == IF joined = <<>> THEN NoDescription ELSE joined
        signed_amount == apply_sign_to_amount(Float(amount.cents), self.current_state)
        date_parts == Split(self.pending_date[1], "/")
        full_date == IF Len(date_parts) = 2
                     THEN self.pending_date[1] \o <<"/">> \o NatToStr(CurrentYear)
                     ELSE self.pending_date[1]
    IN  IF amount.ok
        THEN [self EXCEPT
                !.transactions =
                    Append(@, Transaction(full_date, description, signed_amount,
                                          self.current_state, self.current_category)),
                !.stats.transactions_found = @ + 1,
                !.pending_date = None,
                !.pending_description = <<>>,
                !.origin = Append(@, [kind |-> "stacked", id |-> 0])]
        ELSE [self EXCEPT !.pending_date = None, !.pending_description = <<>>]

(* The single-line fall-back, had it parsed an anchor line without emitting
   the anchor in progress first *)
SingleLine_no_finalize(self, line) ==
    IF _is_transaction_anchor(line)
    THEN _parse_transaction_anchor(self, line)
    ELSE IF self.current_transaction # None
    THEN LET cont == _is_continuation_line(self, line)
         IN  IF cont.ret THEN _append_to_description(cont.self, line) ELSE cont.self
    ELSE self

(* _process_line, the single-line fall-back (anchor or continuation) *)
SingleLine(self, line) ==
    IF _is_transaction_anchor(line)
    THEN _parse_transaction_anchor(_finalize_transaction(self), line)
    ELSE IF self.current_transaction # None
    THEN LET cont == _is_continuation_line(self, line)
         IN  IF cont.ret THEN _append_to_description(cont.self, line) ELSE cont.self
    ELSE self

(* _process_line, had the single-line anchor rule come before the
   accumulation into a pending draft *)
_process_line_anchor_first(self, raw) ==
    LET line == Strip(raw)
        upd == update_state(line, CategoryOf(self))
        date_len == DATE_PATTERN(line)
        amount_only_match == AmountOnlyMatch(line)
    IN  IF line = <<>> THEN self
        ELSE IF ToLower(line) \in COLUMN_HEADERS THEN self
        ELSE IF upd.ret
             THEN _finalize_pending_transaction(
                      [WithCategory(self, upd) EXCEPT !.stats.category_changes = @ + 1])
        ELSE IF ~is_valid_state(self.current_state) THEN self
        ELSE IF date_len > 0 /\ Strip(line) = SubSeq(line, 1, date_len)
             THEN [_finalize_pending_transaction(self) EXCEPT
                      !.pending_date = Some(SubSeq(line, 1, date_len)),
                      !.pending_description = <<>>]
        ELSE IF amount_only_match # None /\ self.pending_date # None
             THEN ClosePending(self, amount_only_match[1])
        ELSE IF self.pending_date # None /\ ~_is_transaction_anchor(line)
             THEN [self EXCEPT !.pending_description = Append(@, line)]
        ELSE SingleLine(self, line)

(* _process_line: the extractor after the call *)
_process_line(self, raw) ==
    LET line == Strip(raw)
        upd == update_state(line, CategoryOf(self))
        date_len == DATE_PATTERN(line)
        amount_only_match == AmountOnlyMatch(line)
    IN  IF line = <<>> THEN self
        ELSE IF ToLower(line) \in COLUMN_HEADERS THEN self
        ELSE IF upd.ret
             THEN _finalize_pending_transaction(
                      [WithCategory(self, upd) EXCEPT !.stats.category_changes = @ + 1])
        ELSE IF ~is_valid_state(self.current_state) THEN self
        ELSE IF date_len > 0 /\ Strip(line) = SubSeq(line, 1, date_len)
             THEN [_finalize_pending_transaction(self) EXCEPT
                      !.pending_date = Some(SubSeq(line, 1, date_len)),
                      !.pending_description = <<>>]
        ELSE IF amount_only_match # None /\ self.pending_date # None
             THEN ClosePending(self, amount_only_match[1])
        ELSE IF self.pending_date # None
             THEN [self EXCEPT !.pending_description = Append(@, line)]
        ELSE SingleLine(self, line)

---------------------------------------------------------------------------
(* TransactionValidator (financial_validator.py) *)

min_description_length == 2

LeapYear(y) == (y % 4 = 0 /\ y % 100 # 0) \/ y % 400 = 0
DaysIn(m, y) ==
    IF m = 2 THEN (IF LeapYear(y) THEN 29 ELSE 28)
    ELSE IF m \in {4, 6, 9, 11} THEN 30 ELSE 31

(* The directives of strptime: %m is 1[0-2]|0[1-9]|[1-9], %d is
   3[01]|[12]\d|0[1-9]|[1-9]| [1-9], %Y is \d\d\d\d and %y is \d\d. *)
MonthField(p) == Len(p) \in {1, 2} /\ AllDigits(p) /\ DigitsToNat(p) \in 1..12
DayField(p) ==
    \/ Len(p) \in {1, 2} /\ AllDigits(p) /\ DigitsToNat(p) \in 1..31
    \/ Len(p) = 2 /\ p[1] = " " /\ p[2] \in Digit \ {"0"}
DayOf(p) == DigitsToNat(Strip(p))
YearField(p, ylen) == Len(p) = ylen /\ AllDigits(p)
YearOf(p) ==
    IF Len(p) = 4 THEN DigitsToNat(p)
    ELSE IF DigitsToNat(p) <= 68 THEN 2000 + DigitsToNat(p) ELSE 1900 + DigitsToNat(p)
CalendarDate(y, m, d) == y >= 1 /\ d <= DaysIn(m, y)

(* datetime.strptime(date_str, '%m<sep>%d<sep>%Y') or '...%y' does not raise *)
StrpMDY(date_str, sep, ylen) ==
    LET parts == Split(date_str, sep)
    IN  /\ Len(parts) = 3
        /\ MonthField(parts[1]) /\ DayField(parts[2]) /\ YearField(parts[3], ylen)
        /\ CalendarDate(YearOf(parts[3]), DigitsToNat(parts[1]), DayOf(parts[2]))

(* datetime.strptime(date_str, '%m/%d') does not raise (the year is 1900) *)
StrpMD(date_str, sep) ==
    LET parts == Split(date_str, sep)
    IN  /\ Len(parts) = 2
        /\ MonthField(parts[1]) /\ DayField(parts[2])
        /\ CalendarDate(1900, DigitsToNat(parts[1]), DayOf(parts[2]))

(* datetime.strptime(date_str, '%Y-%m-%d') does not raise *)
StrpYMD(date_str, sep) ==
    LET parts == Split(date_str, sep)
    IN  /\ Len(parts) = 3
        /\ YearField(parts[1], 4) /\ MonthField(parts[2]) /\ DayField(parts[3])
        /\ CalendarDate(YearOf(parts[1]), DigitsToNat(parts[2]), DayOf(parts[3]))

(* _validate_date *)
_validate_date(date_str) ==
    /\ date_str # <<>>
    /\ \/ StrpMDY(date_str, "/", 4)
       \/ StrpMDY(date_str, "/", 2)
       \/ StrpMD(date_str, "/")
       \/ StrpMDY(date_str, "-", 4)
       \/ StrpMDY(date_str, "-", 2)
       \/ StrpYMD(date_str, "-")

(* _validate_amount with an upper bound of one million on the magnitude *)
_validate_amount_capped(amount, allow_zero) ==
    IF IsZero(amount) THEN allow_zero ELSE amount.cents <= 100000000

(* _validate_amount *)
_validate_amount(amount, allow_zero) ==
    IF IsZero(amount) THEN allow_zero ELSE TRUE

(* _validate_description *)
_validate_description(description) ==
    /\ Strip(description) # <<>>
    /\ Len(Strip(description)) >= min_description_length

(* _validate_type_and_category rejecting a credit or debit transaction that has
   no category label *)
_validate_type_and_category_labelled(txn_type, category) ==
    IF txn_type \notin {CREDIT, DEBIT, UNKNOWN} THEN FALSE
    ELSE IF txn_type = UNKNOWN THEN FALSE
    ELSE IF category = None \/ Strip(category[1]) = <<>> THEN FALSE
    ELSE TRUE

(* _validate_type_and_category *)
_validate_type_and_category(txn_type, category) ==
    IF txn_type \notin {CREDIT, DEBIT, UNKNOWN} THEN FALSE
    ELSE IF txn_type = UNKNOWN THEN FALSE
    ELSE TRUE

(* validate_transaction returning false where it should raise *)
validate_transaction_quiet(v, vstats, transaction) ==
    LET counted == [vstats EXCEPT !.total_validated = @ + 1]
        reject(kind) ==
            [ret |-> FALSE, raised |-> FALSE,
             stats |-> [counted EXCEPT ![kind] = @ + 1, !.invalid = @ + 1]]
    IN  IF ~_validate_date(transaction.date) THEN reject("invalid_date")
        ELSE IF ~_validate_amount(transaction.amount, v.allow_zero_amounts)
             THEN reject("invalid_amount")
        ELSE IF ~_validate_description(transaction.description)
             THEN reject("invalid_description")
        ELSE IF ~_validate_type_and_category(transaction.type, transaction.category)
             THEN reject("invalid_category")
        ELSE [ret |-> TRUE, raised |-> FALSE, stats |-> [counted EXCEPT !.valid = @ + 1]]

(* validate_transaction, had strict mode raised before the rejection was
   counted *)
validate_transaction_uncounted(v, vstats, transaction) ==
    LET counted == [vstats EXCEPT !.total_validated = @ + 1]
        reject(kind) ==
            [ret |-> FALSE, raised |-> v.strict_mode,
             stats |-> IF v.strict_mode THEN counted
                       ELSE [counted EXCEPT ![kind] = @ + 1, !.invalid = @ + 1]]
    IN  IF ~_validate_date(transaction.date) THEN reject("invalid_date")
        ELSE IF ~_validate_amount(transaction.amount, v.allow_zero_amounts)
             THEN reject("invalid_amount")
        ELSE IF ~_validate_description(transaction.description)
             THEN reject("invalid_description")
        ELSE IF ~_validate_type_and_category(transaction.type, transaction.category)
             THEN reject("invalid_category")
        ELSE [ret |-> TRUE, raised |-> FALSE, stats |-> [counted EXCEPT !.valid = @ + 1]]

(* validate_transaction under the configuration v = [strict_mode,
   allow_zero_amounts]: the returned bool (ret), whether ValidationError was
   raised instead (raised), and validation_stats afterwards. *)
validate_transaction(v, vstats, transaction) ==
    LET counted == [vstats EXCEPT !.total_validated = @ + 1]
        reject(kind) ==
            [ret |-> FALSE, raised |-> v.strict_mode,
             stats |-> [counted EXCEPT ![kind] = @ + 1, !.invalid = @ + 1]]
    IN  IF ~_validate_date(transaction.date) THEN reject("invalid_date")
        ELSE IF ~_validate_amount(transaction.amount, v.allow_zero_amounts)
             THEN reject("invalid_amount")
        ELSE IF ~_validate_description(transaction.description)
             THEN reject("invalid_description")
        ELSE IF ~_validate_type_and_category(transaction.type, transaction.category)
             THEN reject("invalid_category")
        ELSE [ret |-> TRUE, raised |-> FALSE, stats |-> [counted EXCEPT !.valid = @ + 1]]

(* validate_transactions, the loop from transaction i on: acc holds
   valid_transactions and validation_stats so far. *)
RECURSIVE ValidateFrom(_, _, _, _)
ValidateFrom(v, txns, i, acc) ==
    IF i > Len(txns) THEN acc
    ELSE LET r == validate_transaction(v, acc.stats, txns[i])
         IN  IF r.raised THEN [raised |-> TRUE, valid |-> acc.valid, stats |-> r.stats]
             ELSE ValidateFrom(v, txns, i + 1,
                      [raised |-> FALSE,
                       valid |-> IF r.ret THEN Append(acc.valid, txns[i]) ELSE acc.valid,
                       stats |-> r.stats])

(* validate_transactions returning its argument *)
validate_transactions_all(v, vstats, txns) ==
    [raised |-> FALSE, valid |-> txns,
     stats |-> [vstats EXCEPT !.total_validated = @ + Len(txns),
                              !.valid = @ + Len(txns)]]

(* validate_transactions *)
validate_transactions(v, vstats, txns) ==
    ValidateFrom(v, txns, 1, [raised |-> FALSE, valid |-> <<>>, stats |-> vstats])

---------------------------------------------------------------------------
(* TransactionFilter.filter_by_keywords (main.py) *)

KeyAll == S2C("All")
KeyUnmatched == S2C("Unmatched")

Range(seq) == {seq[i] : i \in 1..Len(seq)}

(* The loop over the transactions from index idx on: acc holds results and
   matched_indices so far. *)
RECURSIVE KeywordLoop(_, _, _, _)
KeywordLoop(txns, keywords, idx, acc) ==
    IF idx > Len(txns) THEN acc
    ELSE LET desc_lower == ToLower(txns[idx].description)
             hits == {j \in 1..Len(keywords) : Contains(desc_lower, ToLower(keywords[j]))}
             keyword == keywords[SetMin(hits)]
         IN  IF hits = {} THEN KeywordLoop(txns, keywords, idx + 1, acc)
             ELSE KeywordLoop(txns, keywords, idx + 1,
                      [results |-> [acc.results EXCEPT ![keyword] = Append(@, txns[idx])],
                       matched_indices |-> acc.matched_indices \cup {idx}])

(* [txn for idx, txn in enumerate(transactions) if idx not in matched_indices] *)
RECURSIVE Unmatched(_, _, _)
Unmatched(txns, matched_indices, idx) ==
    IF idx > Len(txns) THEN <<>>
    ELSE (IF idx \in matched_indices THEN <<>> ELSE <<txns[idx]>>)
             \o Unmatched(txns, matched_indices, idx + 1)

(* filter_by_keywords: the returned dict, a function from its keys *)
filter_by_keywords(txns, keywords) ==
    IF keywords = <<>> THEN [k \in {KeyAll} |-> txns]
    ELSE LET loop == KeywordLoop(txns, keywords, 1,
                         [results |-> [k \in Range(keywords) |-> <<>>],
                          matched_indices |-> {}])
             unmatched == Unmatched(txns, loop.matched_indices, 1)
         IN  IF unmatched # <<>>
             THEN [k \in (DOMAIN loop.results) \cup {KeyUnmatched} |->
                      IF k = KeyUnmatched THEN unmatched ELSE loop.results[k]]
             ELSE loop.results

---------------------------------------------------------------------------
(* Statement lines of the model *)

L_blank == S2C("  ")
L_column == S2C("Date")
L_credit == S2C("Deposits and Additions")
L_debit == S2C("Electronic Withdrawals")
L_anchor == S2C("03/14/2026 CHECK CARD PURCHASE STORE #4521 54.23 1200.11")
L_anchor2 == S2C("01/06 ATM 20.00 1,180.11")
L_zero == S2C("01/05 WIRE FEE 0.00")
L_date == S2C("04/02")
L_desc1 == S2C("PAYROLL ACME")
L_desc2 == S2C("REF 7731")
L_amount == S2C("1,600.00")
L_balance == S2C("Ending Balance 45,200.00")

Lines ==
    {L_blank, L_column, L_credit, L_debit, L_anchor, L_anchor2, L_zero, L_date,
     L_desc1, L_desc2, L_amount, L_balance}

---------------------------------------------------------------------------
(* extract_transactions *)

InitExtractor ==
    /\ current_state = UNKNOWN
    /\ current_category = None
    /\ state_history = <<>>
    /\ transactions = <<>>
    /\ current_transaction = None
    /\ pending_date = None
    /\ pending_description = <<>>
    /\ stats = [lines_processed |-> 0, category_changes |-> 0,
                transactions_found |-> 0, multi_line_merges |-> 0]
    /\ result = None
    /\ last_line = None
    /\ origin = <<>>
    /\ accepted = 0
    /\ nonblank = FALSE

InitValidator ==
    /\ strict_mode = FALSE
    /\ allow_zero_amounts = FALSE
    /\ validation_stats = [total_validated |-> 0, valid |-> 0, invalid |-> 0,
                           invalid_date |-> 0, invalid_amount |-> 0,
                           invalid_description |-> 0, invalid_category |-> 0]
    /\ valid_transactions = None

InitFilterIdle ==
    /\ f_transactions = <<>>
    /\ f_keywords = <<>>
    /\ f_result = None

InitRangeIdle == d_transactions = <<>> /\ d_start = <<>> /\ d_end = <<>> /\ d_result = None
InitGroupIdle == g_input = <<>> /\ g_result = None
InitRunsIdle == run_text = <<>> /\ run_calls = <<>>
InitStateIdle == u_line = <<>> /\ u_ret = None
InitInputIdle == v_input = <<>> /\ v_ret = None
InitFaultIdle ==
    /\ faulted = <<>> /\ p_args = <<>> /\ p_out = None
    /\ m_amount = Float(0) /\ m_display = None
    /\ em_date_str = <<>> /\ em_month = None
InitOthersIdle ==
    /\ InitRangeIdle /\ InitGroupIdle /\ InitRunsIdle /\ InitStateIdle
    /\ InitInputIdle /\ InitFaultIdle

SetSelf(self) ==
    /\ current_state' = self.current_state
    /\ current_category' = self.current_category
    /\ state_history' = self.state_history
    /\ transactions' = self.transactions
    /\ current_transaction' = self.current_transaction
    /\ pending_date' = self.pending_date
    /\ pending_description' = self.pending_description
    /\ stats' = self.stats
    /\ origin' = self.origin
    /\ accepted' = self.accepted

(* extract_transactions on an empty or whitespace-only text *)
ExtractEmpty ==
    /\ pc = "idle"
    /\ pc' = "returned"
    /\ result' = Some(<<>>)
    /\ UNCHANGED <<current_state, current_category, state_history, transactions,
                   current_transaction, pending_date, pending_description, stats,
                   last_line, origin, accepted, nonblank, vvars, fvars, xvars>>

(* extract_transactions, one round of the loop over the lines of a text that
   is not whitespace-only *)
Scan(raw) ==
    /\ pc \in {"idle", "scan"}
    /\ stats.lines_processed < MaxLines
    /\ pc' = "scan"
    /\ nonblank' = (nonblank \/ Strip(raw) # <<>>)
    /\ last_line' = Some(raw)
    /\ \E after \in {_process_line([Self EXCEPT !.stats.lines_processed = @ + 1], raw)} :
           SetSelf(after)
    /\ UNCHANGED <<result, vvars, fvars, xvars>>

(* extract_transactions after the last line *)
EndOfInput ==
    /\ pc = "scan"
    /\ nonblank
    /\ pc' = "returned"
    /\ \E after \in {_finalize_pending_transaction(_finalize_transaction(Self))} :
           SetSelf(after) /\ result' = Some(after.transactions)
    /\ UNCHANGED <<last_line, nonblank, vvars, fvars, xvars>>

(* TransactionValidator(strict, zero).validate_transactions(result) *)
Validate(strict, zero) ==
    /\ pc = "returned"
    /\ strict_mode' = strict
    /\ allow_zero_amounts' = zero
    /\ \E r \in {validate_transactions(
                     [strict_mode |-> strict, allow_zero_amounts |-> zero],
                     validation_stats, result[1])} :
           /\ validation_stats' = r.stats
           /\ valid_transactions' = IF r.raised THEN None ELSE Some(r.valid)
           /\ pc' = IF r.raised THEN "raised" ELSE "validated"
    /\ UNCHANGED <<evars, fvars, xvars>>

Init == pc = "idle" /\ InitExtractor /\ InitValidator /\ InitFilterIdle /\ InitOthersIdle

Next ==
    \/ ExtractEmpty
    \/ \E raw \in Lines : Scan(raw)
    \/ EndOfInput
    \/ \E strict \in BOOLEAN, zero \in BOOLEAN : Validate(strict, zero)

Spec == Init /\ [][Next]_vars

---------------------------------------------------------------------------
(* filter_by_keywords on bounded inputs *)

FilterTxn(description) ==
    Transaction(S2C("01/15/2026"), S2C(description), Float(2500), CREDIT,
                Some(S2C("Deposits")))

FilterTxns ==
    {FilterTxn("CHASE CARD PAYMENT"), FilterTxn("Chase to Wells Fargo transfer"),
     FilterTxn("PAYROLL ACME"), FilterTxn("unmatched wire")}

FilterKeywords == {S2C("Chase"), S2C("Wells Fargo"), KeyUnmatched}

SeqsUpTo(S, n) == UNION {[1..k -> S] : k \in 0..n}

InitFilter ==
    /\ pc = "f_idle"
    /\ InitExtractor
    /\ InitValidator
    /\ f_transactions \in SeqsUpTo(FilterTxns, MaxTxns)
    /\ f_keywords \in SeqsUpTo(FilterKeywords, MaxKeywords)
    /\ f_result = None
    /\ InitOthersIdle

FilterByKeywords ==
    /\ pc = "f_idle"
    /\ pc' = "f_done"
    /\ f_result' = Some(filter_by_keywords(f_transactions, f_keywords))
    /\ UNCHANGED <<evars, vvars, f_transactions, f_keywords, xvars>>

NextFilter == FilterByKeywords

SpecFilter == InitFilter /\ [][NextFilter]_vars

---------------------------------------------------------------------------
(* TransactionFilter.filter_by_date_range and _extract_month (main.py) *)

(* ord(c) of the printable ASCII characters but the double quote, the
   backslash and the backquote, which no string of the model holds: runs of characters in
   code-point order, each with the code point of its first character *)
AsciiRuns ==
    {[first |-> 32, chars |-> S2C(" !")],
     [first |-> 35, chars |-> S2C("#$%&'()*+,-./0123456789:;<=>?@")],
     [first |-> 65, chars |-> S2C("ABCDEFGHIJKLMNOPQRSTUVWXYZ[")],
     [first |-> 93, chars |-> S2C("]^_")],
     [first |-> 97, chars |-> S2C("abcdefghijklmnopqrstuvwxyz{|}~")]}
OrdOf ==
    [c \in UNION {Range(run.chars) : run \in AsciiRuns} |->
        LET run == CHOOSE r \in AsciiRuns : c \in Range(r.chars)
        IN  run.first - 1 + CHOOSE i \in 1..Len(run.chars) : run.chars[i] = c]
Ord(c) == OrdOf[c]

(* a <= b for Python str: the order of the code points, a prefix first *)
RECURSIVE StrLE(_, _)
StrLE(a, b) ==
    IF a = <<>> THEN TRUE
    ELSE IF b = <<>> THEN FALSE
    ELSE IF a[1] = b[1] THEN StrLE(Tail(a), Tail(b))
    ELSE Ord(a[1]) < Ord(b[1])

HasChar(s, c) == \E i \in 1..Len(s) : s[i] = c
StartsWith(s, prefix) ==
    Len(s) >= Len(prefix) /\ SubSeq(s, 1, Len(prefix)) = prefix

(* str.zfill(2) *)
ZFill2(s) ==
    IF Len(s) >= 2 THEN s
    ELSE IF Len(s) = 0 THEN <<"0", "0">>
    ELSE IF s[1] \in {"+", "-"} THEN <<s[1], "0">>
    ELSE <<"0">> \o s

(* int(year) of a two-character string: whether it parses (ok) and its value *)
IntOfYear(year) ==
    IF AllDigits(year) THEN [ok |-> TRUE, value |-> DigitsToNat(year)]
    ELSE IF year[1] \in {" ", "+"} /\ year[2] \in Digit
         THEN [ok |-> TRUE, value |-> DigitVal(year[2])]
    ELSE IF year[1] = "-" /\ year[2] \in Digit
         THEN [ok |-> TRUE, value |-> 0 - DigitVal(year[2])]
    ELSE IF year[1] \in Digit /\ year[2] = " "
         THEN [ok |-> TRUE, value |-> DigitVal(year[1])]
    ELSE [ok |-> FALSE, value |-> 0]

(* _extract_month: the returned Optional[str] *)
_extract_month(date_str) ==
    LET parts == IF HasChar(date_str, "/") THEN Split(date_str, "/")
                 ELSE Split(date_str, "-")
        year == parts[3]
        year_int == IntOfYear(year)
    IN  IF ~HasChar(date_str, "/") /\ ~HasChar(date_str, "-") THEN None
        ELSE IF ~HasChar(date_str, "/") /\ StartsWith(date_str, S2C("20"))
             THEN Some(SubSeq(date_str, 1, SetMin({7, Len(date_str)})))
        ELSE IF Len(parts) = 3
             THEN IF Len(year) = 2
                  THEN IF ~year_int.ok THEN None
                       ELSE IF year_int.value <= 49
                            THEN Some(S2C("20") \o year \o <<"-">> \o ZFill2(parts[1]))
                            ELSE Some(S2C("19") \o year \o <<"-">> \o ZFill2(parts[1]))
                  ELSE Some(year \o <<"-">> \o ZFill2(parts[1]))
        ELSE IF Len(parts) = 2
             THEN Some(NatToStr(CurrentYear) \o <<"-">> \o ZFill2(parts[1]))
        ELSE None

(* filter_by_date_range, the loop from transaction idx on *)
RECURSIVE DateRangeLoop(_, _, _, _)
DateRangeLoop(txns, start_month, end_month, idx) ==
    IF idx > Len(txns) THEN <<>>
    ELSE LET txn_month == _extract_month(txns[idx].date)
         IN  (IF /\ txn_month # None
                 /\ StrLE(start_month, txn_month[1])
                 /\ StrLE(txn_month[1], end_month)
              THEN <<txns[idx]>> ELSE <<>>)
                 \o DateRangeLoop(txns, start_month, end_month, idx + 1)

(* filter_by_date_range *)
filter_by_date_range(txns, start_month, end_month) ==
    IF start_month = <<>> \/ end_month = <<>> THEN txns
    ELSE DateRangeLoop(txns, start_month, end_month, 1)

(* filter_by_date_range on bounded inputs *)
DatedTxn(date, transaction_type) ==
    Transaction(S2C(date), S2C("CHASE CARD PAYMENT"), Float(2500), transaction_type,
                Some(S2C("Deposits")))

RangeDates ==
    {"02/10/26", "01/05/2025", "3/31", "12-01-55", "2026/02/10", "2026-2-10",
     "2026-03-01", "unknown"}
RangeTxns == {DatedTxn(date, CREDIT) : date \in RangeDates}
RangeMonths == {<<>>, S2C("2025-01"), S2C("2026-01"), S2C("2026-03"), S2C("2026/01")}

InitRange ==
    /\ pc = "d_idle"
    /\ InitExtractor /\ InitValidator /\ InitFilterIdle
    /\ d_transactions \in SeqsUpTo(RangeTxns, MaxTxns)
    /\ d_start \in RangeMonths
    /\ d_end \in RangeMonths
    /\ d_result = None
    /\ InitGroupIdle /\ InitRunsIdle /\ InitStateIdle /\ InitInputIdle /\ InitFaultIdle

FilterByDateRange ==
    /\ pc = "d_idle"
    /\ pc' = "d_done"
    /\ d_result' = Some(filter_by_date_range(d_transactions, d_start, d_end))
    /\ UNCHANGED <<evars, vvars, fvars, d_transactions, d_start, d_end,
                   gvars, rvars, uvars, ivars, faulted, pvars, mvars, tvars>>

NextRange == FilterByDateRange

SpecRange == InitRange /\ [][NextRange]_vars

---------------------------------------------------------------------------
(* TransactionGrouper (main.py) *)

(* group_by_month, the loop from transaction idx on; grouped is the dict so
   far, a function from its keys *)
RECURSIVE GroupByMonthLoop(_, _, _)
GroupByMonthLoop(txns, idx, grouped) ==
    IF idx > Len(txns) THEN grouped
    ELSE LET month == _extract_month(txns[idx].date)
         IN  IF month # None /\ month[1] # <<>>
             THEN GroupByMonthLoop(txns, idx + 1,
                      [m \in (DOMAIN grouped) \cup {month[1]} |->
                          IF m \in DOMAIN grouped
                          THEN (IF m = month[1] THEN Append(grouped[m], txns[idx])
                                ELSE grouped[m])
                          ELSE <<txns[idx]>>])
             ELSE GroupByMonthLoop(txns, idx + 1, grouped)

(* group_by_month *)
group_by_month(txns) == GroupByMonthLoop(txns, 1, [m \in {} |-> <<>>])

KeyDeposits == S2C("deposits")
KeyWithdrawals == S2C("withdrawals")
IsCreditTxn(txn) == txn.type = CREDIT
IsDebitTxn(txn) == txn.type = DEBIT

month_data_both(month_txns) ==
    [k \in {KeyDeposits, KeyWithdrawals} |->
        IF k = KeyDeposits THEN SelectSeq(month_txns, IsCreditTxn)
        ELSE SelectSeq(month_txns, IsDebitTxn)]

(* group_by_bank_month_type, month_data of one month *)
month_data(month_txns) ==
    LET deposits == SelectSeq(month_txns, IsCreditTxn)
        withdrawals == SelectSeq(month_txns, IsDebitTxn)
    IN  [k \in (IF deposits # <<>> THEN {KeyDeposits} ELSE {})
               \cup (IF withdrawals # <<>> THEN {KeyWithdrawals} ELSE {}) |->
            IF k = KeyDeposits THEN deposits ELSE withdrawals]

(* group_by_bank_month_type, bank_data of one bank *)
bank_data(bank_txns) ==
    LET months == group_by_month(bank_txns)
    IN  [month \in {m \in DOMAIN months : DOMAIN month_data(months[m]) # {}} |->
            month_data(months[month])]

(* group_by_bank_month_type: the returned nested dict *)
group_by_bank_month_type(transactions_by_bank) ==
    [bank \in {b \in DOMAIN transactions_by_bank :
                  /\ transactions_by_bank[b] # <<>>
                  /\ DOMAIN bank_data(transactions_by_bank[b]) # {}} |->
        bank_data(transactions_by_bank[bank])]

(* group_by_bank_month_type on bounded inputs *)
GroupTxns ==
    {DatedTxn("02/10/26", CREDIT), DatedTxn("02/15/2026", DEBIT),
     DatedTxn("03/01/2026", UNKNOWN), DatedTxn("unknown", CREDIT),
     DatedTxn("01/05/2025", DEBIT), DatedTxn("2026/02/10", CREDIT)}
Banks == {S2C("Chase"), S2C("Wells Fargo")}

InitGroup ==
    /\ pc = "g_idle"
    /\ InitExtractor /\ InitValidator /\ InitFilterIdle
    /\ g_input \in [Banks -> SeqsUpTo(GroupTxns, MaxTxns)]
    /\ g_result = None
    /\ InitRangeIdle /\ InitRunsIdle /\ InitStateIdle /\ InitInputIdle /\ InitFaultIdle

GroupByBankMonthType ==
    /\ pc = "g_idle"
    /\ pc' = "g_done"
    /\ g_result' = Some(group_by_bank_month_type(g_input))
    /\ UNCHANGED <<evars, vvars, fvars, dvars, g_input, rvars, uvars, ivars, faulted, pvars, mvars, tvars>>

NextGroup == GroupByBankMonthType

SpecGroup == InitGroup /\ [][NextGroup]_vars

---------------------------------------------------------------------------
(* Repeated extraction calls (regex_extractor.py) *)

(* TransactionExtractor.__init__: a new extractor object *)
TransactionExtractor ==
    [current_state |-> UNKNOWN, current_category |-> None, state_history |-> <<>>,
     transactions |-> <<>>, current_transaction |-> None, pending_date |-> None,
     pending_description |-> <<>>,
     stats |-> [lines_processed |-> 0, category_changes |-> 0,
                transactions_found |-> 0, multi_line_merges |-> 0],
     origin |-> <<>>, accepted |-> 0]

(* extract_transactions, the loop over the lines from line i on *)
RECURSIVE ProcessLines(_, _, _)
ProcessLines(self, lines, i) ==
    IF i > Len(lines) THEN self
    ELSE CHOOSE done \in
             {ProcessLines(after, lines, i + 1) :
                 after \in {_process_line([self EXCEPT !.stats.lines_processed = @ + 1],
                                          lines[i])}} : TRUE

(* extract_transactions entering its loop whatever the text *)
extract_transactions_unguarded(self, lines) ==
    LET after == _finalize_pending_transaction(
                     _finalize_transaction(ProcessLines(self, lines, 1)))
    IN  [self |-> after, result |-> after.transactions]

(* extract_transactions on the text with the given lines: the extractor after
   the call (self) and the returned list (result) *)
extract_transactions(self, lines) ==
    IF \A i \in 1..Len(lines) : Strip(lines[i]) = <<>>
    THEN [self |-> self, result |-> <<>>]
    ELSE LET after == _finalize_pending_transaction(
                          _finalize_transaction(ProcessLines(self, lines, 1)))
         IN  [self |-> after, result |-> after.transactions]

extractor_shared(previous) == previous

(* extract_transactions_from_text, extractor = TransactionExtractor(): the
   extractor of the call, whatever the extractor of the previous call was *)
extractor_of_call(previous) == TransactionExtractor

(* The empty text, and texts of nothing but spaces, tabs and newlines, as the
   lines text.split('\n') gives *)
BlankTexts == {<<<<>>>>, <<S2C(" \t ")>>, <<<<>>, S2C("\t"), <<>>>>}

InitRuns ==
    /\ pc = "r_idle"
    /\ InitExtractor /\ InitValidator /\ InitFilterIdle
    /\ run_text \in (SeqsUpTo(Lines, MaxRunLines) \ {<<>>}) \cup BlankTexts
    /\ run_calls = <<>>
    /\ InitRangeIdle /\ InitGroupIdle /\ InitStateIdle /\ InitInputIdle /\ InitFaultIdle

(* One more call on run_text, on the extractor given; the variables of the
   extractor hold the extractor object of the last call. *)
CallOn(self, by) ==
    /\ Len(run_calls) < 2
    /\ \A i \in 1..Len(run_calls) : run_calls[i].by = by
    /\ pc' = "r_called"
    /\ \E r \in {extract_transactions(self, run_text)} :
           /\ SetSelf(r.self)
           /\ result' = Some(r.result)
           /\ run_calls' = Append(run_calls, [by |-> by, result |-> r.result,
                                              stats |-> r.self.stats])
    /\ UNCHANGED <<last_line, nonblank, run_text, vvars, fvars, dvars, gvars,
                   uvars, ivars, faulted, pvars, mvars, tvars>>

(* extract_transactions_from_text(run_text) *)
ExtractFromText == CallOn(extractor_of_call(Self), "function")

(* extractor.extract_transactions(run_text) on one TransactionExtractor *)
ExtractOnInstance == CallOn(Self, "method")

NextRuns == ExtractFromText \/ ExtractOnInstance

SpecRuns == InitRuns /\ [][NextRuns]_vars

---------------------------------------------------------------------------
(* CategoryState.update_state called on the tracker of an extractor, at any
   point of a short run (financial_rules.py) *)

StateScanLines ==
    {S2C("Deposits"), S2C("  CHECKS PAID "), L_anchor2, L_desc1, L_date,
     S2C("Total Deposits")}

StateLines ==
    {S2C("  DEPOSITS  "), S2C("deposits"), S2C("\tCredits"),
     S2C("Deposits and Additions"), S2C("DEPOSITS & OTHER CREDITS "),
     S2C("deposits and other credits"), S2C("Deposits & Additions"),
     S2C("Electronic Withdrawals"), S2C("ELECTRONIC WITHDRAWALS & DEBITS"),
     S2C(" withdrawals and other debits"), S2C("Withdrawals & Other Debits"),
     S2C("debits"), S2C("Withdrawals"), S2C("CHECKS PAID"), S2C("ATM Withdrawals  "),
     S2C("Deposits:"), S2C("Total Deposits"), S2C("deposit"), S2C(""), S2C("   "),
     S2C("PAYROLL ACME"), S2C("Checks  Paid"), S2C("De posits"), S2C("04/02")}

(* One round of the loop of extract_transactions, in a run of at most
   MaxRunLines lines *)
ScanState(raw) == stats.lines_processed < MaxRunLines /\ Scan(raw)

(* category_state.update_state(line) *)
UpdateState(line) ==
    /\ pc \in {"idle", "scan"}
    /\ pc' = "u_done"
    /\ u_line' = line
    /\ \E r \in {update_state(line, category_state)} :
           /\ u_ret' = Some(r.ret)
           /\ current_state' = r.current_state
           /\ current_category' = r.current_category
           /\ state_history' = r.state_history
    /\ UNCHANGED <<transactions, current_transaction, pending_date,
                   pending_description, stats, result, last_line, origin, accepted,
                   nonblank, vvars, fvars, dvars, gvars, rvars, ivars, faulted, pvars, mvars, tvars>>

NextState ==
    \/ \E raw \in StateScanLines : ScanState(raw)
    \/ \E line \in StateLines : UpdateState(line)

SpecState == Init /\ [][NextState]_vars

---------------------------------------------------------------------------
(* TransactionValidator called on transactions of the caller's making
   (financial_validator.py) *)

MaxValidated == 3   \* transactions handed to validate_transactions

GoodDate == S2C("01/15/2026")
BadDate == S2C("13/45/2026")
GoodDescription == S2C("PAYROLL ACME")
BadDescription == S2C("x")
BlankCategory == Some(S2C("   "))

ValidatorTxn(date, cents, description, transaction_type, category) ==
    Transaction(date, description, Float(cents), transaction_type, category)

(* Every combination of good and bad fields *)
AllValidatorTxns ==
    {ValidatorTxn(date, cents, description, transaction_type, category) :
        date \in {GoodDate, BadDate}, cents \in {0, 2500},
        description \in {GoodDescription, BadDescription},
        transaction_type \in {CREDIT, DEBIT, UNKNOWN},
        category \in {None, BlankCategory, Some(S2C("Deposits"))}}

(* The transactions of the lists *)
ValidatorTxns ==
    {ValidatorTxn(GoodDate, 2500, GoodDescription, CREDIT, Some(S2C("Deposits"))),
     ValidatorTxn(GoodDate, 2500, GoodDescription, DEBIT, None),
     ValidatorTxn(GoodDate, 2500, GoodDescription, CREDIT, BlankCategory),
     ValidatorTxn(GoodDate, 2500, GoodDescription, UNKNOWN, Some(S2C("Deposits"))),
     ValidatorTxn(GoodDate, 2500, GoodDescription, UNKNOWN, None),
     ValidatorTxn(BadDate, 2500, GoodDescription, CREDIT, Some(S2C("Deposits"))),
     ValidatorTxn(GoodDate, 0, GoodDescription, DEBIT, Some(S2C("Checks Paid"))),
     ValidatorTxn(GoodDate, 2500, BadDescription, CREDIT, Some(S2C("Deposits")))}

InitValidate ==
    /\ pc = "v_idle"
    /\ InitExtractor
    /\ InitValidator
    /\ InitFilterIdle
    /\ InitRangeIdle /\ InitGroupIdle /\ InitRunsIdle /\ InitStateIdle
    /\ InitFaultIdle
    /\ v_input \in SeqsUpTo(ValidatorTxns, MaxValidated)
                     \cup {<<t>> : t \in AllValidatorTxns}
    /\ v_ret = None

(* TransactionValidator(strict_mode=strict, allow_zero_amounts=zero)
   .validate_transaction(v_input[0]) *)
ValidateTransaction(strict, zero) ==
    /\ pc = "v_idle"
    /\ Len(v_input) = 1
    /\ strict_mode' = strict
    /\ allow_zero_amounts' = zero
    /\ \E r \in {validate_transaction(
                     [strict_mode |-> strict, allow_zero_amounts |-> zero],
                     validation_stats, v_input[1])} :
           /\ validation_stats' = r.stats
           /\ v_ret' = IF r.raised THEN None ELSE Some(r.ret)
           /\ pc' = IF r.raised THEN "v_one_raised" ELSE "v_one_returned"
    /\ UNCHANGED <<evars, valid_transactions, fvars, dvars, gvars, rvars, uvars, v_input, faulted, pvars, mvars, tvars>>

(* TransactionValidator(strict_mode=strict, allow_zero_amounts=zero)
   .validate_transactions(v_input) *)
ValidateTransactions(strict, zero) ==
    /\ pc = "v_idle"
    /\ strict_mode' = strict
    /\ allow_zero_amounts' = zero
    /\ \E r \in {validate_transactions(
                     [strict_mode |-> strict, allow_zero_amounts |-> zero],
                     validation_stats, v_input)} :
           /\ validation_stats' = r.stats
           /\ valid_transactions' = IF r.raised THEN None ELSE Some(r.valid)
           /\ pc' = IF r.raised THEN "v_all_raised" ELSE "v_all_returned"
    /\ UNCHANGED <<evars, fvars, dvars, gvars, rvars, uvars, v_input, v_ret, faulted, pvars, mvars, tvars>>

NextValidate ==
    \/ \E strict \in BOOLEAN, zero \in BOOLEAN : ValidateTransaction(strict, zero)
    \/ \E strict \in BOOLEAN, zero \in BOOLEAN : ValidateTransactions(strict, zero)

SpecValidate == InitValidate /\ [][NextValidate]_vars

---------------------------------------------------------------------------
(* extract_transactions with _process_line raising on some lines: the handler
   of the loop (regex_extractor.py:113-118) *)

MaxFaultLines == 5  \* lines of a text with raising lines
MaxFaults == 1      \* lines of a text on which _process_line raises

FaultLines == {L_credit, L_anchor2, L_zero, L_desc1}

Faults == Cardinality({i \in 1..Len(faulted) : faulted[i]})

(* One round of the loop in which _process_line returns *)
ScanLine(raw) ==
    /\ pc \in {"idle", "scan"}
    /\ stats.lines_processed < MaxFaultLines
    /\ pc' = "scan"
    /\ nonblank' = (nonblank \/ Strip(raw) # <<>>)
    /\ last_line' = Some(raw)
    /\ faulted' = Append(faulted, FALSE)
    /\ \E after \in {_process_line([Self EXCEPT !.stats.lines_processed = @ + 1], raw)} :
           SetSelf(after)
    /\ UNCHANGED <<result, vvars, fvars, dvars, gvars, rvars, uvars, ivars, pvars, mvars, tvars>>

(* The extractor when _process_line raises: the exception comes from the
   runtime (no statement of the body raises on a str), at the first statement
   of the body or at its last. *)
RaisedIn(self, raw) == {self, _process_line(self, raw)}

(* The round in which _process_line raises, were the exception to end the
   loop as the outer handler does *)
ScanRaisesAborts(raw) ==
    /\ pc \in {"idle", "scan"}
    /\ stats.lines_processed < MaxFaultLines
    /\ Faults < MaxFaults
    /\ pc' = "returned"
    /\ nonblank' = (nonblank \/ Strip(raw) # <<>>)
    /\ last_line' = Some(raw)
    /\ faulted' = Append(faulted, TRUE)
    /\ \E after \in RaisedIn([Self EXCEPT !.stats.lines_processed = @ + 1], raw) :
           SetSelf(after) /\ result' = Some(after.transactions)
    /\ UNCHANGED <<vvars, fvars, dvars, gvars, rvars, uvars, ivars, pvars, mvars, tvars>>

(* One round of the loop in which _process_line raises: the exception is
   logged and the loop continues with the next line *)
ScanRaises(raw) ==
    /\ pc \in {"idle", "scan"}
    /\ stats.lines_processed < MaxFaultLines
    /\ Faults < MaxFaults
    /\ pc' = "scan"
    /\ nonblank' = (nonblank \/ Strip(raw) # <<>>)
    /\ last_line' = Some(raw)
    /\ faulted' = Append(faulted, TRUE)
    /\ \E after \in RaisedIn([Self EXCEPT !.stats.lines_processed = @ + 1], raw) :
           SetSelf(after)
    /\ UNCHANGED <<result, vvars, fvars, dvars, gvars, rvars, uvars, ivars, pvars, mvars, tvars>>

NextFault ==
    \/ \E raw \in FaultLines : ScanLine(raw)
    \/ \E raw \in FaultLines : ScanRaises(raw)
    \/ EndOfInput

SpecFault == Init /\ [][NextFault]_vars

---------------------------------------------------------------------------
(* BankStatementExtractor.process (main.py) *)

(* The keywords argument: the type of the object and, for a sequence type,
   its items *)
PyNone == [kind |-> "NoneType", items |-> <<>>]
PyList(items) == [kind |-> "list", items |-> items]
PyTuple(items) == [kind |-> "tuple", items |-> items]

(* len(keywords) raises TypeError *)
HasNoLen(keywords) == keywords.kind = "NoneType"

(* datetime.strptime(month, '%Y-%m') does not raise *)
StrpYM(month) ==
    LET parts == Split(month, "-")
    IN  /\ Len(parts) = 2
        /\ YearField(parts[1], 4) /\ MonthField(parts[2])
        /\ DigitsToNat(parts[1]) >= 1

(* _validate_inputs: the ValueError it raises, if any *)
_validate_inputs(args) ==
    IF ~args.pdf_exists THEN Some("ValueError")
    ELSE IF args.keywords.items = <<>> \/ args.keywords.kind # "list" THEN Some("ValueError")
    ELSE IF \E i \in 1..Len(args.keywords.items) : Strip(args.keywords.items[i]) = <<>>
         THEN Some("ValueError")
    ELSE IF args.start_month = <<>> THEN Some("ValueError")
    ELSE IF args.end_month = <<>> THEN Some("ValueError")
    ELSE IF ~(StrpYM(args.start_month) /\ StrpYM(args.end_month)) THEN Some("ValueError")
    ELSE IF ~StrLE(args.start_month, args.end_month) THEN Some("ValueError")
    ELSE IF ~args.output_is_pdf THEN Some("ValueError")
    ELSE None

(* BankStatementExtractor.__init__: self.stats *)
RunStats ==
    [pdf_pages |-> 0, total_extracted |-> 0, valid_transactions |-> 0,
     after_keyword_filter |-> 0, after_date_filter |-> 0, final_output |-> 0]

(* sum(len(txns) for txns in by_bank.values()) *)
RECURSIVE SumLens(_, _)
SumLens(by_bank, banks) ==
    IF banks = {} THEN 0
    ELSE LET bank == CHOOSE b \in banks : TRUE
         IN  Len(by_bank[bank]) + SumLens(by_bank, banks \ {bank})

(* '\n'.join(lines) *)
RECURSIVE JoinLines(_)
JoinLines(lines) ==
    IF lines = <<>> THEN <<>>
    ELSE IF Len(lines) = 1 THEN lines[1]
    ELSE lines[1] \o <<"\n">> \o JoinLines(Tail(lines))

(* text.count('\n\n'): occurrences are counted without overlap, so a run of
   k newlines holds k \div 2 of them; starts are the first positions of the runs
   still to count *)
RECURSIVE CountBreaks(_, _)
CountBreaks(text, starts) ==
    IF starts = {} THEN 0
    ELSE LET i == CHOOSE j \in starts : TRUE
             run == {j \in i..Len(text) : \A k \in i..j : text[k] = "\n"}
         IN  (Cardinality(run) \div 2) + CountBreaks(text, starts \ {i})

RunStarts(text) ==
    {i \in 1..Len(text) : text[i] = "\n" /\ (i = 1 \/ text[i - 1] # "\n")}

(* Step 5 of process: the banks that keep a transaction in the range *)
date_filtered_by_bank(transactions_by_bank, start_month, end_month) ==
    [bank \in {b \in DOMAIN transactions_by_bank :
                  filter_by_date_range(transactions_by_bank[b], start_month, end_month) # <<>>} |->
        filter_by_date_range(transactions_by_bank[bank], start_month, end_month)]

(* process, the stages after the input validation; each stage is handed the
   values of the stages before it *)
Pipeline(args) ==
    LET NoValidationStats ==
            [total_validated |-> 0, valid |-> 0, invalid |-> 0,
             invalid_date |-> 0, invalid_amount |-> 0,
             invalid_description |-> 0, invalid_category |-> 0]
        Calls == <<"load", "extract", "validate", "keywords", "dates", "group", "report">>
        Report(final, filtered, total_after_date) ==
            IF args.report_fails
            THEN [error |-> Some("Exception"), calls |-> Calls, stats |-> final,
                  report |-> None]
            ELSE [error |-> None, calls |-> Calls, stats |-> final,
                  report |-> Some([grouped_data |-> group_by_bank_month_type(filtered),
                                   total_transactions |-> total_after_date])]
        Group(loaded, candidates, valid, transactions_by_bank, filtered, total_after_date) ==
            Report([loaded EXCEPT
                       !.total_extracted = Len(candidates),
                       !.valid_transactions = Len(valid),
                       !.after_keyword_filter =
                           SumLens(transactions_by_bank, DOMAIN transactions_by_bank),
                       !.after_date_filter = total_after_date,
                       !.final_output = total_after_date],
                   filtered, total_after_date)
        Dates(loaded, candidates, valid, transactions_by_bank, filtered) ==
            Group(loaded, candidates, valid, transactions_by_bank, filtered,
                  SumLens(filtered, DOMAIN filtered))
        Keywords(loaded, candidates, valid, transactions_by_bank) ==
            Dates(loaded, candidates, valid, transactions_by_bank,
                  date_filtered_by_bank(transactions_by_bank,
                                        args.start_month, args.end_month))
        Validated(loaded, candidates, valid) ==
            Keywords(loaded, candidates, valid,
                     filter_by_keywords(valid, args.keywords.items))
        Extracted(loaded, candidates) ==
            Validated(loaded, candidates,
                      validate_transactions(
                          [strict_mode |-> FALSE, allow_zero_amounts |-> FALSE],
                          NoValidationStats, candidates).valid)
        Loaded(loaded) ==
            IF \A i \in 1..Len(args.text) : Strip(args.text[i]) = <<>>
            THEN [error |-> Some("ValueError"), calls |-> <<"load">>, stats |-> loaded,
                  report |-> None]
            ELSE Extracted(loaded,
                           extract_transactions(extractor_of_call(TransactionExtractor),
                                                args.text).result)
        Joined(joined) ==
            Loaded([RunStats EXCEPT
                       !.pdf_pages = CountBreaks(joined, RunStarts(joined)) + 1])
    IN  IF args.load_fails
        THEN [error |-> Some("PDFLoadError"), calls |-> <<"load">>, stats |-> RunStats,
              report |-> None]
        ELSE Joined(JoinLines(args.text))

(* process: the exception it raises (error), the stages it ran (calls),
   self.stats and what was handed to the report writer *)
process(args) ==
    IF HasNoLen(args.keywords)
    THEN [error |-> Some("TypeError"), calls |-> <<>>, stats |-> RunStats, report |-> None]
    ELSE IF _validate_inputs(args) # None
    THEN [error |-> _validate_inputs(args), calls |-> <<>>, stats |-> RunStats,
          report |-> None]
    ELSE Pipeline(args)

(* process on bounded arguments *)
P_chase == S2C("01/15/2026 CHASE CARD PAYMENT 25.00")
P_wells == S2C("2/10 Wells Fargo transfer 40.00 1,040.00")
P_fee == S2C("01/20/2026 CHASE WIRE FEE 0.00")
P_other == S2C("03/14/2026 CHECK CARD PURCHASE 54.23")
P_unmatched == S2C("01/16/2026 UNMATCHED DEPOSIT 10.00")

Documents ==
    {<<L_credit, P_chase, P_wells, L_debit, P_fee>>,
     <<L_debit, P_other, <<>>, <<>>, P_chase>>,
     <<P_chase, P_other>>,
     <<L_credit, P_unmatched, P_chase>>}

ProcessKeywords ==
    {PyNone, PyList(<<>>), PyTuple(<<S2C("Chase")>>), PyList(<<S2C("Chase")>>),
     PyList(<<S2C("Chase"), S2C("  ")>>), PyList(<<S2C("Wells Fargo"), S2C("Chase")>>),
     PyList(<<S2C("Unmatched")>>)}

ProcessMonths ==
    {S2C(""), S2C("2026-01"), S2C("2026-03"), S2C("2026-1"), S2C("2026/01"),
     S2C("2026-13"), S2C("26-01")}

InitProcess ==
    /\ pc = "p_idle"
    /\ InitExtractor /\ InitValidator /\ InitFilterIdle
    /\ InitRangeIdle /\ InitGroupIdle /\ InitRunsIdle /\ InitStateIdle /\ InitInputIdle
    /\ faulted = <<>>
    /\ m_amount = Float(0) /\ m_display = None
    /\ em_date_str = <<>> /\ em_month = None
    /\ p_args \in [pdf_exists : BOOLEAN, keywords : ProcessKeywords,
                   start_month : ProcessMonths, end_month : ProcessMonths,
                   output_is_pdf : BOOLEAN, text : Documents,
                   load_fails : BOOLEAN, report_fails : BOOLEAN]
    /\ p_out = None

(* BankStatementExtractor().process(pdf_path, keywords, start_month, end_month,
   output_path) *)
Process ==
    /\ pc = "p_idle"
    /\ pc' = "p_done"
    /\ p_out' = Some(process(p_args))
    /\ UNCHANGED <<evars, vvars, fvars, dvars, gvars, rvars, uvars, ivars, faulted, p_args, mvars, tvars>>

NextProcess == Process

SpecProcess == InitProcess /\ [][NextProcess]_vars

---------------------------------------------------------------------------
(* apply_sign_to_amount and format_amount_display on amounts in whole cents
   (financial_rules.py) *)

MaxCents == 130     \* magnitudes 0..MaxCents cents, and a few large ones

AmountCentsSet == (0..MaxCents) \cup {99999, 100000, 123456789}

InitAmount ==
    /\ pc = "m_idle"
    /\ InitExtractor /\ InitValidator /\ InitFilterIdle
    /\ InitRangeIdle /\ InitGroupIdle /\ InitRunsIdle /\ InitStateIdle /\ InitInputIdle
    /\ faulted = <<>> /\ p_args = <<>> /\ p_out = None
    /\ m_amount \in [neg : BOOLEAN, cents : AmountCentsSet]
    /\ m_display = None
    /\ em_date_str = <<>> /\ em_month = None

(* m_amount = apply_sign_to_amount(m_amount, transaction_type) *)
ApplySign(transaction_type) ==
    /\ pc = "m_idle"
    /\ pc' = "m_signed"
    /\ m_amount' = apply_sign_to_amount(m_amount, transaction_type)
    /\ UNCHANGED <<evars, vvars, fvars, dvars, gvars, rvars, uvars, ivars, faulted,
                   pvars, m_display, tvars>>

(* format_amount_display(m_amount) *)
FormatDisplay ==
    /\ pc \in {"m_idle", "m_signed"}
    /\ pc' = IF pc = "m_idle" THEN "m_shown" ELSE "m_signed_shown"
    /\ m_display' = Some(format_amount_display(m_amount))
    /\ UNCHANGED <<evars, vvars, fvars, dvars, gvars, rvars, uvars, ivars, faulted,
                   pvars, m_amount, tvars>>

NextAmount ==
    \/ \E transaction_type \in {CREDIT, DEBIT, UNKNOWN} : ApplySign(transaction_type)
    \/ FormatDisplay

SpecAmount == InitAmount /\ [][NextAmount]_vars

---------------------------------------------------------------------------
(* Anchor lines with descriptions and amounts of every kind, in short runs
   (regex_extractor.py, _parse_transaction_anchor) *)

MaxAnchorLines == 4

AnchorLines ==
    {L_credit, L_desc1, L_date, S2C("04-02"), L_amount,
     S2C("01/06 20.00"), S2C("01/06 AB 20.00"), S2C("01/06 ATM 20.00"),
     S2C("01/06 Page TOTAL 20.00"), S2C("01/07 Daily balance 21,000,000.00"),
     S2C("01/08 WIRE 21,000,000.00")}

ScanAnchor(raw) == stats.lines_processed < MaxAnchorLines /\ Scan(raw)

NextAnchor ==
    \/ \E raw \in AnchorLines : ScanAnchor(raw)
    \/ EndOfInput

SpecAnchor == Init /\ [][NextAnchor]_vars

---------------------------------------------------------------------------
(* Statement lines carrying a calendar-valid date in every layout of
   DATE_PATTERN (regex_extractor.py:60-67), extracted and then validated *)

MaxDateLines == 3

DateTokens ==
    {S2C("03/14/2026"), S2C("3/4/26"), S2C("12/31/99"), S2C("2026-03-14"),
     S2C("2026/03/14"), S2C("03/14"), S2C("03-14"), S2C("03-14-2026"),
     S2C("03-14-26"), S2C("2026-2-10")}

DateLines ==
    {L_credit, L_amount} \cup DateTokens \cup {token \o S2C(" ATM 20.00") : token \in DateTokens}

ScanDates(raw) == stats.lines_processed < MaxDateLines /\ Scan(raw)

NextDates ==
    \/ \E raw \in DateLines : ScanDates(raw)
    \/ EndOfInput
    \/ \E zero \in BOOLEAN : Validate(FALSE, zero)

SpecDates == Init /\ [][NextDates]_vars

---------------------------------------------------------------------------
(* _extract_month on the date strings the extractor stores: every layout of
   DATE_PATTERN (regex_extractor.py:60-67), one separator per date *)

MonthTexts == {S2C("2"), S2C("02"), S2C("12")}
DayTexts == {S2C("5"), S2C("28")}
YearTexts4 == {S2C("2026"), S2C("1999")}
YearTexts2 == {S2C("26"), S2C("49"), S2C("50"), S2C("99")}

ExtractorDates ==
    UNION {
        {m \o <<sep>> \o d \o <<sep>> \o y : y \in YearTexts4 \cup YearTexts2}
        \cup {y \o <<sep>> \o m \o <<sep>> \o d : y \in YearTexts4}
        \cup {m \o <<sep>> \o d}
        : <<m, d, sep>> \in MonthTexts \X DayTexts \X {"/", "-"}}

InitMonth ==
    /\ pc = "em_idle"
    /\ InitExtractor /\ InitValidator /\ InitFilterIdle
    /\ InitRangeIdle /\ InitGroupIdle /\ InitRunsIdle /\ InitStateIdle /\ InitInputIdle
    /\ faulted = <<>> /\ p_args = <<>> /\ p_out = None
    /\ m_amount = Float(0) /\ m_display = None
    /\ em_date_str \in ExtractorDates
    /\ em_month = None

(* TransactionFilter._extract_month(date_str) *)
ExtractMonth ==
    /\ pc = "em_idle"
    /\ pc' = "em_done"
    /\ em_month' = _extract_month(em_date_str)
    /\ UNCHANGED <<evars, vvars, fvars, dvars, gvars, rvars, uvars, ivars, faulted,
                   pvars, mvars, em_date_str>>

NextMonth == ExtractMonth

SpecMonth == InitMonth /\ [][NextMonth]_vars

---------------------------------------------------------------------------
(* One validator object called again and again, the caller catching the
   ValidationError of strict mode (financial_validator.py, validate_transaction) *)

MaxCalls == 3

InitCalls ==
    /\ pc = "c_idle"
    /\ InitExtractor
    /\ strict_mode \in BOOLEAN
    /\ allow_zero_amounts \in BOOLEAN
    /\ validation_stats = [total_validated |-> 0, valid |-> 0, invalid |-> 0,
                           invalid_date |-> 0, invalid_amount |-> 0,
                           invalid_description |-> 0, invalid_category |-> 0]
    /\ valid_transactions = None
    /\ InitFilterIdle /\ InitOthersIdle

(* validator.validate_transaction(transaction), v_input holding the argument
   of the last call *)
CallValidate(transaction) ==
    /\ pc \in {"c_idle", "c_returned", "c_raised"}
    /\ validation_stats.total_validated < MaxCalls
    /\ v_input' = <<transaction>>
    /\ \E r \in {validate_transaction(
                     [strict_mode |-> strict_mode, allow_zero_amounts |-> allow_zero_amounts],
                     validation_stats, transaction)} :
           /\ validation_stats' = r.stats
           /\ v_ret' = IF r.raised THEN None ELSE Some(r.ret)
           /\ pc' = IF r.raised THEN "c_raised" ELSE "c_returned"
    /\ UNCHANGED <<evars, strict_mode, allow_zero_amounts, valid_transactions, fvars,
                   dvars, gvars, rvars, uvars, faulted, pvars, mvars, tvars>>

(* Transactions that are good but for their amount: zero of either sign, a
   cent, and 21 million of either sign *)
AmountTxns ==
    {Transaction(GoodDate, GoodDescription, amount, transaction_type, Some(S2C("Deposits"))) :
        amount \in [neg : BOOLEAN, cents : {0, 1, 2100000000}],
        transaction_type \in {CREDIT, DEBIT}}

NextCalls ==
    \E transaction \in AllValidatorTxns \cup AmountTxns : CallValidate(transaction)

SpecCalls == InitCalls /\ [][NextCalls]_vars

---------------------------------------------------------------------------
(* Whole texts interleaving single-line anchors and stacked drafts, handed to
   extract_transactions_from_text (regex_extractor.py) *)

MaxOrderLines == 4

OrderLines ==
    {L_credit, S2C("01/06 ATM 20.00"), S2C("01/08 WIRE 30.00"), L_date, L_amount, L_desc1}

InitOrder ==
    /\ pc = "r_idle"
    /\ InitExtractor /\ InitValidator /\ InitFilterIdle
    /\ run_text \in SeqsUpTo(OrderLines, MaxOrderLines) \ {<<>>}
    /\ run_calls = <<>>
    /\ InitRangeIdle /\ InitGroupIdle /\ InitStateIdle /\ InitInputIdle /\ InitFaultIdle

NextOrder == ExtractFromText

SpecOrder == InitOrder /\ [][NextOrder]_vars

---------------------------------------------------------------------------
(* The /process request handler (api/main.py) *)

(* sum(len(txns) for txns in month_data.values()) over the keys given *)
RECURSIVE SumTypes(_, _)
SumTypes(data, keys) ==
    IF keys = {} THEN 0
    ELSE LET key == CHOOSE k \in keys : TRUE
         IN  Len(data[key]) + SumTypes(data, keys \ {key})

RECURSIVE SumMonths(_, _)
SumMonths(bank_months, months) ==
    IF months = {} THEN 0
    ELSE LET m == CHOOSE k \in months : TRUE
         IN  SumTypes(bank_months[m], DOMAIN bank_months[m])
                 + SumMonths(bank_months, months \ {m})

RECURSIVE SumBanks(_, _)
SumBanks(grouped, banks) ==
    IF banks = {} THEN 0
    ELSE LET bank == CHOOSE b \in banks : TRUE
         IN  SumMonths(grouped[bank], DOMAIN grouped[bank])
                 + SumBanks(grouped, banks \ {bank})

(* total_txns: the deposits and withdrawals of every month of every bank *)
total_txns(grouped) == SumBanks(grouped, DOMAIN grouped)

(* [k.strip() for k in keywords.split(',') if k.strip()] *)
NonEmptyStr(s) == s # <<>>
keyword_list(keywords) ==
    LET parts == Split(keywords, ",")
    IN  SelectSeq([i \in 1..Len(parts) |-> Strip(parts[i])], NonEmptyStr)

(* uploaded_file.filename.lower().endswith('.pdf') *)
IsPdfName(filename) ==
    /\ Len(filename) >= 4
    /\ SubSeq(ToLower(filename), Len(filename) - 3, Len(filename)) = S2C(".pdf")

(* The state of the handler before its loop over the uploads: extractor is the
   extractor object of the last extraction, created are the temporary files
   made so far (by the position of their upload), raised the HTTP status of an
   exception that left the loop *)
UploadLoopStart ==
    [all_transactions |-> <<>>, temp_files |-> <<>>, pdf_info |-> <<>>,
     created |-> {}, extractor |-> TransactionExtractor, raised |-> None]

(* One pass of the loop body with the text load_pdf returned *)
ExtractUpload(st, r) ==
    [st EXCEPT !.all_transactions = @ \o r.result,
               !.pdf_info = Append(@, [transactions_extracted |-> Some(Len(r.result)),
                                       error |-> None]),
               !.extractor = r.self]

(* The loop body for upload i, after the temporary file was written *)
LoadUpload(st, upload) ==
    IF upload.load_fails
    THEN [st EXCEPT !.pdf_info = Append(@, [transactions_extracted |-> None,
                                            error |-> Some("PDFLoadError")])]
    ELSE ExtractUpload(st, extract_transactions(extractor_of_call(st.extractor),
                                                upload.text))

(* for uploaded_file in files, from upload i on *)
RECURSIVE UploadLoop(_, _, _)
UploadLoop(files, i, st) ==
    IF i > Len(files) THEN st
    ELSE IF ~IsPdfName(files[i].filename) THEN [st EXCEPT !.raised = Some(400)]
    ELSE IF files[i].read_fails
         THEN [st EXCEPT !.created = @ \cup {i}, !.raised = Some(500)]
    ELSE CHOOSE done \in
             {UploadLoop(files, i + 1, after) :
                 after \in {LoadUpload([st EXCEPT !.created = @ \cup {i},
                                                  !.temp_files = Append(@, i)],
                                       files[i])}} : TRUE

(* What the handler leaves: the HTTP status, the status field of the body, the
   candidate and valid transactions, pdf_info, what was handed to the report
   writer, and the temporary files created and still on disk *)
Answer(code, status, st, valid, report, remaining) ==
    [code |-> code, status |-> status, all_transactions |-> st.all_transactions,
     valid_transactions |-> valid, pdf_info |-> st.pdf_info, report |-> report,
     created |-> st.created, remaining |-> remaining]

(* Steps 5 and 6: grouping and the report *)
RespondGrouped(st, valid, keywords, request, filtered_by_date) ==
    IF DOMAIN filtered_by_date = {}
    THEN Answer(200, "no_matches", st, valid, None, {})
    ELSE Answer(200, "success", st, valid,
                Some([grouped_data |-> group_by_bank_month_type(filtered_by_date),
                      total_transactions |->
                          total_txns(group_by_bank_month_type(filtered_by_date))]),
                {})

(* Step 4: the banks that keep a transaction in the range, by the loop that
   step 5 of process has *)
filtered_by_date(filtered_by_bank, start_month, end_month) ==
    date_filtered_by_bank(filtered_by_bank, start_month, end_month)

(* Steps 2 to 4: validation and the two filters *)
RespondValid(st, valid, keywords, request) ==
    IF valid = <<>> THEN Answer(200, "no_transactions", st, valid, None, {})
    ELSE RespondGrouped(st, valid, keywords, request,
                        filtered_by_date(filter_by_keywords(valid, keywords),
                                         request.start_month, request.end_month))

(* The handler after its loop: an exception leaves without the cleanup; the
   cleanup unlinks the files listed in temp_files *)
RespondLoop(st, keywords, request) ==
    IF st.raised # None
    THEN Answer(st.raised[1], "error", st, <<>>, None, st.created)
    ELSE RespondValid(st,
                      validate_transactions(
                          [strict_mode |-> FALSE, allow_zero_amounts |-> FALSE],
                          [total_validated |-> 0, valid |-> 0, invalid |-> 0,
                           invalid_date |-> 0, invalid_amount |-> 0,
                           invalid_description |-> 0, invalid_category |-> 0],
                          st.all_transactions).valid,
                      keywords, request)

(* process_statements(files, keywords, start_month, end_month) *)
process_statements(request) ==
    IF keyword_list(request.keywords) = <<>> \/ request.files = <<>>
       \/ ~(StrpYM(request.start_month) /\ StrpYM(request.end_month))
    THEN Answer(400, "error", UploadLoopStart, <<>>, None, {})
    ELSE RespondLoop(UploadLoop(request.files, 1, UploadLoopStart),
                     keyword_list(request.keywords), request)

(* Requests of at most MaxUploads uploads *)
MaxUploads == 3

U_header == <<L_credit, S2C("01/15/2026 CHASE CARD PAYMENT 25.00"), L_debit>>
U_draft == <<L_credit, S2C("01/16/2026 CHASE"), L_date>>
U_plain == <<S2C("01/20/2026 CHASE ATM 20.00")>>

Upload(filename, read_fails, load_fails, text) ==
    [filename |-> S2C(filename), read_fails |-> read_fails,
     load_fails |-> load_fails, text |-> text]

Uploads ==
    {Upload("a.pdf", FALSE, FALSE, U_header), Upload("B.PDF", FALSE, FALSE, U_draft),
     Upload("c.pdf", FALSE, FALSE, U_plain), Upload("d.pdf", FALSE, TRUE, <<>>),
     Upload("e.pdf", TRUE, FALSE, <<>>), Upload("notes.txt", FALSE, FALSE, <<>>)}

RequestKeywords == {S2C("Chase, Wells Fargo"), S2C(" , "), S2C("Payroll")}
RequestMonths == {S2C("2026-01"), S2C("2026-02"), S2C("2026/01")}

InitRequest ==
    /\ pc = "a_idle"
    /\ InitExtractor /\ InitValidator /\ InitFilterIdle
    /\ InitRangeIdle /\ InitGroupIdle /\ InitRunsIdle /\ InitStateIdle /\ InitInputIdle
    /\ faulted = <<>>
    /\ m_amount = Float(0) /\ m_display = None
    /\ em_date_str = <<>> /\ em_month = None
    /\ p_args \in [files : SeqsUpTo(Uploads, MaxUploads), keywords : RequestKeywords,
                   start_month : RequestMonths, end_month : RequestMonths]
    /\ p_out = None

(* POST /process *)
ProcessStatements ==
    /\ pc = "a_idle"
    /\ pc' = "a_done"
    /\ p_out' = Some(process_statements(p_args))
    /\ UNCHANGED <<evars, vvars, fvars, dvars, gvars, rvars, uvars, ivars, faulted,
                   p_args, mvars, tvars>>

NextRequest == ProcessStatements

SpecRequest == InitRequest /\ [][NextRequest]_vars

---------------------------------------------------------------------------
(* Properties *)

(* The step processed a line (Scan), and the line it processed *)
LineStep == pc' = "scan"
TheLine == Strip(last_line'[1])

(* C1: every transaction the extractor emits and the validator accepts, under
   every validator configuration, has amount >= 0 exactly when its type is
   credit and amount < 0 exactly when its type is debit. *)
C1_SignMatchesType ==
    pc = "validated" =>
        \A i \in 1..Len(valid_transactions[1]) :
            LET t == valid_transactions[1][i]
            IN  /\ GE0(t.amount) <=> t.type = CREDIT
                /\ LT0(t.amount) <=> t.type = DEBIT

(* C2: no transaction is created while the polarity is unknown: a step taken
   while the polarity is unknown changes neither the anchor, nor the pending
   draft, nor the output list; the polarity never returns to unknown once it
   is credit or debit; every emitted transaction has type credit or debit and
   a category label that is present. *)
C2_PolarityGate ==
    [][/\ current_state = UNKNOWN =>
              UNCHANGED <<current_transaction, pending_date,
                          pending_description, transactions>>
       /\ current_state # UNKNOWN => current_state' # UNKNOWN
       /\ \A i \in 1..Len(transactions') :
              /\ transactions'[i].type \in {CREDIT, DEBIT}
              /\ transactions'[i].category # None]_vars

(* C2, its case: an anchor line and a date-only line were processed before
   any header and left the extractor empty. *)
C2_Witness ==
    /\ pc = "scan"
    /\ current_state = UNKNOWN
    /\ stats.lines_processed >= 2
    /\ last_line \in {Some(L_anchor), Some(L_date)}
    /\ current_transaction = None /\ pending_date = None /\ transactions = <<>>

(* The digits of an amount token, read as cents (the token has two decimals) *)
IsDigitChar(c) == c \in Digit
TokenCents(tok) == DigitsToNat(SelectSeq(tok, IsDigitChar))
(* The same for a token whose decimals are optional *)
AmountCents(tok) ==
    IF \E i \in 1..Len(tok) : tok[i] = "." THEN TokenCents(tok)
    ELSE 100 * TokenCents(tok)

(* A token of s starts at p and it is the last one: no token starts at its
   end or later, and no token that starts before p runs over p. *)
LastTokenAt(s, p) ==
    /\ AmountMatchEnd(s, p) > 0
    /\ \A i \in AmountMatchEnd(s, p)..Len(s) : AmountMatchEnd(s, i) = 0
    /\ \A i \in 1..(p - 1) : AmountMatchEnd(s, i) <= p

(* C3: when an anchor line is accepted under an active category, the amount of
   the anchor is the magnitude of the last amount token of the line, negative
   under debit and positive under credit, and its description is the trimmed
   text between the end of the date token and the start of that token. *)
C3_AnchorLastAmount ==
    [][(LineStep /\ accepted' = accepted + 1) =>
          \E line \in {TheLine} : \E date_len \in {DATE_PATTERN(line)} :
          \E remaining \in {Strip(SubSeq(line, date_len + 1, Len(line)))} :
          \E cur \in {current_transaction'[i] : i \in 1..Len(current_transaction')} :
              /\ current_state' \in {CREDIT, DEBIT}
              /\ date_len > 0
              /\ cur.date = SubSeq(line, 1, date_len)
              /\ cur.type = current_state'
              /\ \E p \in 1..Len(remaining) :
                    /\ LastTokenAt(remaining, p)
                    /\ cur.amount =
                           [neg |-> current_state' = DEBIT,
                            cents |-> TokenCents(SubSeq(remaining, p,
                                          AmountMatchEnd(remaining, p) - 1))]
                    /\ cur.description = Strip(SubSeq(remaining, 1, p - 1))]_vars

(* C3, its case: the anchor with two amount tokens was accepted under credit;
   the second token is the amount and the first stays in the description. *)
C3_Witness ==
    /\ pc = "scan"
    /\ last_line = Some(L_anchor2)
    /\ current_state = CREDIT
    /\ current_transaction # None
    /\ current_transaction[1].amount = [neg |-> FALSE, cents |-> 118011]
    /\ current_transaction[1].description = S2C("ATM 20.00")

(* C4: for the text made of the header line "Electronic Withdrawals" and the
   anchor line 03/14/2026 CHECK CARD PURCHASE STORE #4521 54.23 1200.11,
   extraction returns exactly one transaction, with amount -54.23, type debit
   and description "CHECK CARD PURCHASE STORE #4521"; 1200.11 is neither the
   amount nor part of the description. *)
C4_TrailingBalanceExcluded ==
    (/\ pc = "returned"
     /\ stats.lines_processed = 2
     /\ state_history = <<<<"DEBIT", L_debit>>>>
     /\ last_line = Some(L_anchor))
    => /\ Len(result[1]) = 1
       /\ result[1][1].date = S2C("03/14/2026")
       /\ result[1][1].amount = [neg |-> TRUE, cents |-> 5423]
       /\ result[1][1].type = DEBIT
       /\ result[1][1].description = S2C("CHECK CARD PURCHASE STORE #4521")
       /\ result[1][1].category = Some(S2C("Electronic Withdrawals"))

(* C4, its case: the two-line text was extracted and returned a transaction. *)
C4_Witness ==
    /\ pc = "returned"
    /\ stats.lines_processed = 2
    /\ state_history = <<<<"DEBIT", L_debit>>>>
    /\ last_line = Some(L_anchor)
    /\ Len(result[1]) = 1
    /\ result[1][1].amount_display = S2C("-54.23")

(* The line of the step is an amount-only line *)
AmountOnlyStep == LineStep /\ AmountOnlyMatch(TheLine) # None

(* C5: under an active category, an amount-only line that arrives while a
   stand-alone-date draft is pending emits exactly one transaction: its
   description is the accumulated lines joined by single spaces in arrival
   order, or the placeholder when there are none; its amount is the parsed
   magnitude signed by the polarity; its type and category are the current
   ones; the pending draft is empty afterwards. For the header "Deposits and
   Additions", the date 04/02, two description lines and the amount 1,600.00
   the transaction has amount 1600.00, type credit and date 04/02/<current
   year>. *)
C5_StackedTransaction ==
    [][(AmountOnlyStep /\ pending_date # None /\ current_state # UNKNOWN) =>
          \E line \in {TheLine} : \E before \in {transactions} :
          \E draft \in {pending_description} : \E after \in {transactions'} :
              /\ Len(after) = Len(before) + 1
              /\ SubSeq(after, 1, Len(before)) = before
              /\ pending_date' = None /\ pending_description' = <<>>
              /\ \E t \in {after[Len(after)]} :
                    /\ t.description =
                           (IF draft = <<>> THEN S2C("[No description]")
                            ELSE JoinSpace(draft))
                    /\ t.amount = [neg |-> current_state = DEBIT,
                                   cents |-> AmountCents(line)]
                    /\ t.type = current_state
                    /\ t.category = current_category
                    /\ (/\ state_history = <<<<"CREDIT", L_credit>>>>
                        /\ pending_date = Some(S2C("04/02"))
                        /\ draft = <<L_desc1, L_desc2>>
                        /\ line = L_amount)
                       => /\ t.amount = [neg |-> FALSE, cents |-> 160000]
                          /\ t.type = CREDIT
                          /\ t.date = S2C("04/02/") \o NatToStr(CurrentYear)
                          /\ t.description = S2C("PAYROLL ACME REF 7731")]_vars

(* C5, its case: header, 04/02, two description lines and 1,600.00 were
   processed and the stacked transaction was emitted. *)
C5_Witness ==
    /\ pc = "scan"
    /\ stats.lines_processed = 5
    /\ state_history = <<<<"CREDIT", L_credit>>>>
    /\ last_line = Some(L_amount)
    /\ pending_date = None
    /\ Len(transactions) = 1
    /\ origin = <<[kind |-> "stacked", id |-> 0]>>
    /\ transactions[1].description = S2C("PAYROLL ACME REF 7731")
    /\ transactions[1].amount_display = S2C("+1600.00")

(* The steps at which a pending draft can end without an amount *)
HeaderStep == LineStep /\ state_history' # state_history
DateOnlyStep ==
    /\ LineStep
    /\ current_state # UNKNOWN
    /\ \E line \in {TheLine} :
           DATE_PATTERN(line) > 0 /\ DATE_PATTERN(line) = Len(line)
EndStep == pc = "scan" /\ pc' = "returned"
StackedCount(o) == Cardinality({i \in 1..Len(o) : o[i].kind = "stacked"})

(* C6, as stated: a pending draft leads to an emitted transaction only when an
   amount-only line closes it; when a category header, another date-only line
   or the end of input arrives first, the draft is discarded and that event
   adds no transaction to the output list. *)
C6_DraftDiscardedNothingAdded ==
    [][/\ StackedCount(origin') # StackedCount(origin) =>
              AmountOnlyStep /\ pending_date # None
       /\ (pending_date # None /\ (HeaderStep \/ DateOnlyStep \/ EndStep)) =>
              /\ pending_description' = <<>>
              /\ pending_date' = (IF DateOnlyStep THEN Some(TheLine) ELSE None)
              /\ transactions' = transactions]_vars

(* C6, amended: a pending draft leads to an emitted transaction only when an
   amount-only line closes it; a category header or another date-only line
   that arrives first discards the draft and adds no transaction; the end of
   input discards the draft and emits nothing from it, the only transaction
   it can add being the in-progress single-line anchor. *)
C6_DraftNeverEmitted ==
    [][/\ StackedCount(origin') # StackedCount(origin) =>
              AmountOnlyStep /\ pending_date # None
       /\ (pending_date # None /\ (HeaderStep \/ DateOnlyStep)) =>
              /\ pending_description' = <<>>
              /\ pending_date' = (IF DateOnlyStep THEN Some(TheLine) ELSE None)
              /\ transactions' = transactions
       /\ (pending_date # None /\ EndStep) =>
              /\ pending_description' = <<>> /\ pending_date' = None
              /\ IF current_transaction = None
                 THEN transactions' = transactions
                 ELSE /\ Len(transactions') = Len(transactions) + 1
                      /\ SubSeq(transactions', 1, Len(transactions)) = transactions
                      /\ origin'[Len(origin')].kind = "anchor"
                      /\ \E t \in {transactions'[Len(transactions')]} :
                             /\ t.date = current_transaction[1].date
                             /\ t.description = current_transaction[1].description
                             /\ t.amount = current_transaction[1].amount]_vars

(* C6, its case: header, anchor, date-only line and a description line were
   processed and the input ended; the description line went to the draft (it
   was not merged into the anchor), the draft was dropped and the anchor is
   the only transaction returned. *)
C6_Witness ==
    /\ pc = "returned"
    /\ stats.lines_processed = 4
    /\ last_line = Some(L_desc1)
    /\ stats.multi_line_merges = 0
    /\ accepted = 1
    /\ origin = <<[kind |-> "anchor", id |-> 1]>>
    /\ Len(result[1]) = 1
    /\ pending_date = None /\ pending_description = <<>>

AnchorIds(o) == {i \in 1..Len(o) : o[i].kind = "anchor"}

(* C7: every accepted anchor is emitted exactly once: the anchors emitted so
   far are the accepted ones, each once and in order, but for the one still in
   progress; when extract_transactions has returned there is neither an
   in-progress anchor nor a pending draft, so every accepted anchor of the run
   is in the returned list exactly once. *)
C7_AnchorsEmittedOnce ==
    /\ \A i, j \in AnchorIds(origin) : origin[i].id = origin[j].id => i = j
    /\ {origin[i].id : i \in AnchorIds(origin)} =
           1..(IF current_transaction # None THEN accepted - 1 ELSE accepted)
    /\ Len(origin) = Len(transactions)
    /\ pc \in {"returned", "validated", "raised"} =>
           /\ current_transaction = None
           /\ pending_date = None /\ pending_description = <<>>
           /\ result = Some(transactions)

(* C7, its case: two anchors were accepted, the second was in progress at the
   last line, and both are in the returned list. *)
C7_Witness ==
    /\ pc = "returned"
    /\ accepted = 2
    /\ last_line \in {Some(L_anchor), Some(L_anchor2)}
    /\ origin = <<[kind |-> "anchor", id |-> 1], [kind |-> "anchor", id |-> 2]>>
    /\ Len(result[1]) = 2

(* C8: the line "Ending Balance 45,200.00", processed under an active
   category, adds no transaction to the output, and no emitted transaction
   takes its amount (45,200.00) or its description text from that line. *)
C8_BalanceLineNeverTransaction ==
    [][/\ (LineStep /\ last_line' = Some(L_balance) /\ current_state # UNKNOWN) =>
              transactions' = transactions
       /\ \A i \in 1..Len(transactions') :
              /\ ~Contains(transactions'[i].description, S2C("Ending Balance"))
              /\ transactions'[i].amount.cents # 4520000]_vars

(* The buckets of the returned dict that hold transaction t, with multiplicity *)
Places(r, t) == {<<k, i>> \in (DOMAIN r) \X (1..MaxTxns + 1) :
                    i <= Len(r[k]) /\ r[k][i] = t}
Matches(t, keyword) == Contains(ToLower(t.description), ToLower(keyword))
(* small is a subsequence of big *)
RECURSIVE SubsequenceFrom(_, _, _, _)
SubsequenceFrom(small, big, i, j) ==
    IF i > Len(small) THEN TRUE
    ELSE IF j > Len(big) THEN FALSE
    ELSE IF small[i] = big[j] THEN SubsequenceFrom(small, big, i + 1, j + 1)
    ELSE SubsequenceFrom(small, big, i, j + 1)

(* C9: filter_by_keywords puts each transaction that matches a keyword under
   the first keyword, in the order given, whose text is a case-insensitive
   substring of the description, and under no other key. *)
C9_FirstMatchWins ==
    (pc = "f_done" /\ f_keywords # <<>>) =>
        \A n \in 1..Len(f_transactions) : \A j \in 1..Len(f_keywords) :
            (/\ Matches(f_transactions[n], f_keywords[j])
             /\ \A h \in 1..(j - 1) : ~Matches(f_transactions[n], f_keywords[h]))
            => /\ f_keywords[j] \in DOMAIN f_result[1]
               /\ \E i \in 1..Len(f_result[1][f_keywords[j]]) :
                      f_result[1][f_keywords[j]][i] = f_transactions[n]
               /\ \A p \in Places(f_result[1], f_transactions[n]) :
                      p[1] = f_keywords[j]

(* C10: for every non-empty keyword list the returned buckets partition the
   input: each input transaction is in exactly one bucket, as many times as it
   is in the input, a transaction matching no keyword is under "Unmatched",
   and every bucket keeps the input order. *)
C10_BucketsPartitionInput ==
    (pc = "f_done" /\ f_keywords # <<>>) =>
        /\ \A n \in 1..Len(f_transactions) :
               /\ Cardinality(Places(f_result[1], f_transactions[n])) =
                      Cardinality({m \in 1..Len(f_transactions) :
                                      f_transactions[m] = f_transactions[n]})
               /\ \A p, q \in Places(f_result[1], f_transactions[n]) : p[1] = q[1]
               /\ (\A j \in 1..Len(f_keywords) :
                       ~Matches(f_transactions[n], f_keywords[j]))
                  => /\ KeyUnmatched \in DOMAIN f_result[1]
                     /\ \E i \in 1..Len(f_result[1][KeyUnmatched]) :
                            f_result[1][KeyUnmatched][i] = f_transactions[n]
        /\ \A k \in DOMAIN f_result[1] :
               SubsequenceFrom(f_result[1][k], f_transactions, 1, 1)

(* The canonical month of a date in one of the layouts of the date pattern:
   the zero-padded YYYY-MM of the date (Optional, None when the date is in
   none of the layouts). A two-digit year yy is 20yy for 00-49 and 19yy for
   50-99; a date without a year is of the current year. *)
Pad2(field) == IF Len(field) = 1 THEN <<"0">> \o field ELSE field
IsField(field, lens) == Len(field) \in lens /\ AllDigits(field)
CanonicalMonth(date) ==
    LET parts == IF HasChar(date, "/") /\ ~HasChar(date, "-") THEN Split(date, "/")
                 ELSE IF HasChar(date, "-") /\ ~HasChar(date, "/") THEN Split(date, "-")
                 ELSE <<>>
    IN  IF Len(parts) = 3 /\ IsField(parts[1], {4}) /\ IsField(parts[2], {1, 2})
           /\ IsField(parts[3], {1, 2})
        THEN Some(parts[1] \o <<"-">> \o Pad2(parts[2]))
        ELSE IF Len(parts) = 3 /\ IsField(parts[1], {1, 2}) /\ IsField(parts[2], {1, 2})
                /\ IsField(parts[3], {4})
        THEN Some(parts[3] \o <<"-">> \o Pad2(parts[1]))
        ELSE IF Len(parts) = 3 /\ IsField(parts[1], {1, 2}) /\ IsField(parts[2], {1, 2})
                /\ IsField(parts[3], {2})
        THEN Some((IF DigitsToNat(parts[3]) <= 49 THEN S2C("20") ELSE S2C("19"))
                      \o parts[3] \o <<"-">> \o Pad2(parts[1]))
        ELSE IF Len(parts) = 2 /\ IsField(parts[1], {1, 2}) /\ IsField(parts[2], {1, 2})
        THEN Some(NatToStr(CurrentYear) \o <<"-">> \o Pad2(parts[1]))
        ELSE None

InRequestedRange(t) ==
    /\ CanonicalMonth(t.date) # None
    /\ StrLE(d_start, CanonicalMonth(t.date)[1])
    /\ StrLE(CanonicalMonth(t.date)[1], d_end)

(* C11: filter_by_date_range with non-empty start_month <= end_month returns,
   in input order, exactly the transactions whose canonical month m satisfies
   start_month <= m <= end_month; a transaction whose month cannot be derived
   is dropped. *)
C11_RangeRetainsCanonicalMonths ==
    (pc = "d_done" /\ d_start # <<>> /\ d_end # <<>> /\ StrLE(d_start, d_end)) =>
        d_result[1] = SelectSeq(d_transactions, InRequestedRange)

(* C12: the result of group_by_bank_month_type has no bank without a month, no
   month without a sub-list, no key but deposits and withdrawals, and no empty
   sub-list. *)
C12_NoEmptyGroups ==
    pc = "g_done" =>
        \A bank \in DOMAIN g_result[1] :
            /\ DOMAIN g_result[1][bank] # {}
            /\ \A month \in DOMAIN g_result[1][bank] :
                   /\ DOMAIN g_result[1][bank][month] # {}
                   /\ DOMAIN g_result[1][bank][month] \subseteq
                          {KeyDeposits, KeyWithdrawals}
                   /\ \A k \in DOMAIN g_result[1][bank][month] :
                          g_result[1][bank][month][k] # <<>>

(* C12, its case: one bank has an empty list and is left out, the other has a
   transaction of type unknown in a month of its own and a debit, and is in
   the result with the debit's month only, which has no deposits. *)
C12_Witness ==
    /\ pc = "g_done"
    /\ g_input[S2C("Chase")] = <<>>
    /\ g_input[S2C("Wells Fargo")] =
           <<DatedTxn("03/01/2026", UNKNOWN), DatedTxn("02/15/2026", DEBIT)>>
    /\ DOMAIN g_result[1] = {S2C("Wells Fargo")}
    /\ DOMAIN g_result[1][S2C("Wells Fargo")] = {S2C("2026-02")}
    /\ DOMAIN g_result[1][S2C("Wells Fargo")][S2C("2026-02")] = {KeyWithdrawals}

SameTransaction(a, b) ==
    /\ a.date = b.date /\ a.description = b.description /\ a.amount = b.amount
    /\ a.type = b.type /\ a.category = b.category

(* C13: two calls of extract_transactions_from_text on the same text return
   lists of the same length whose transactions are equal position by position
   (date, description, amount, type, category). *)
C13_SameTextSameOutput ==
    (/\ Len(run_calls) = 2
     /\ run_calls[1].by = "function" /\ run_calls[2].by = "function") =>
        /\ Len(run_calls[1].result) = Len(run_calls[2].result)
        /\ \A i \in 1..Len(run_calls[1].result) :
               SameTransaction(run_calls[1].result[i], run_calls[2].result[i])

(* C13, its case: a text with a header and two anchors was extracted twice by
   the function and each call returned two transactions. *)
C13_Witness ==
    /\ Len(run_calls) = 2
    /\ run_calls[1].by = "function" /\ run_calls[2].by = "function"
    /\ run_text = <<L_debit, L_anchor2, L_anchor>>
    /\ Len(run_calls[1].result) = 2
    /\ Len(run_calls[2].result) = 2

(* C14: a call of extract_transactions on an extractor that has already
   processed a text returns the list, and leaves the counters, that the same
   call on a new extractor gives: nothing of the earlier call is in them. *)
C14_StatePerRun ==
    (/\ Len(run_calls) = 2
     /\ run_calls[1].by = "method" /\ run_calls[2].by = "method") =>
        \E fresh \in {extract_transactions(TransactionExtractor, run_text)} :
            /\ run_calls[2].result = fresh.result
            /\ run_calls[2].stats = fresh.self.stats

(* the positions of line that hold no whitespace *)
Inked(line) == {i \in 1..Len(line) : line[i] \notin Whitespace}

(* x and y differ at most in the case of their letters *)
SameIgnoringCase(x, y) ==
    /\ Len(x) = Len(y)
    /\ \A i \in 1..Len(x) :
           \/ x[i] = y[i]
           \/ \E k \in 1..26 : {x[i], y[i]} = {UpperSeq[k], LowerSeq[k]}

(* the label of line (line without its surrounding whitespace) when it is one
   of headers up to letter case, as a set of zero or one labels *)
HeaderLabels(line, headers) ==
    {label \in {SubSeq(line, a, b) : a \in {i \in Inked(line) : \A j \in Inked(line) : i <= j},
                                     b \in {i \in Inked(line) : \A j \in Inked(line) : i >= j}} :
         \E h \in headers : SameIgnoringCase(label, h)}

UpdateStateStep == pc' = "u_done"

(* C15: update_state on a line that is, up to letter case and surrounding
   whitespace, a known credit (debit) header sets the polarity to credit
   (debit), sets the category label to the trimmed line in its original case,
   appends exactly one entry (polarity tag, label) to the history and returns
   true. *)
C15_HeaderSetsCategory ==
    [][UpdateStateStep =>
        /\ \A label \in HeaderLabels(u_line', CREDIT_HEADERS) :
               /\ current_state' = CREDIT
               /\ current_category' = Some(label)
               /\ state_history' = Append(state_history, <<"CREDIT", label>>)
               /\ u_ret' = Some(TRUE)
        /\ \A label \in HeaderLabels(u_line', DEBIT_HEADERS) :
               /\ current_state' = DEBIT
               /\ current_category' = Some(label)
               /\ state_history' = Append(state_history, <<"DEBIT", label>>)
               /\ u_ret' = Some(TRUE)]_vars

(* After a debit header in the run, update_state("  DEPOSITS  ") has switched
   to credit with the label "DEPOSITS". *)
C15_Witness ==
    /\ pc = "u_done"
    /\ u_line = S2C("  DEPOSITS  ")
    /\ u_ret = Some(TRUE)
    /\ current_state = CREDIT
    /\ current_category = Some(S2C("DEPOSITS"))
    /\ Len(state_history) = 2
    /\ state_history[1][1] = "DEBIT"
    /\ state_history[2] = <<"CREDIT", S2C("DEPOSITS")>>

CategoryUnchanged ==
    /\ UNCHANGED <<current_state, current_category, state_history>>
    /\ stats'.category_changes = stats.category_changes

(* C16: update_state on a line that is no known header returns false and leaves
   polarity, category label and history as they were; and a line of a run that
   is no header, the continuation check on it included, leaves the category
   state of the run as it was. *)
C16_NonHeaderLeavesCategory ==
    [][/\ UpdateStateStep
          /\ HeaderLabels(u_line', CREDIT_HEADERS \cup DEBIT_HEADERS) = {}
          => u_ret' = Some(FALSE) /\ CategoryUnchanged
       /\ LineStep
          /\ HeaderLabels(last_line'[1], CREDIT_HEADERS \cup DEBIT_HEADERS) = {}
          => CategoryUnchanged]_vars

(* A run under a credit header merged a continuation line into a transaction
   (the continuation check ran), and update_state on "Total Deposits" returned
   false with the category still the credit header. *)
C16_Witness ==
    /\ pc = "u_done"
    /\ u_line = S2C("Total Deposits")
    /\ u_ret = Some(FALSE)
    /\ stats.multi_line_merges >= 1
    /\ current_state = CREDIT
    /\ current_category = Some(S2C("Deposits"))
    /\ Len(state_history) = 1

(* The fields of t other than type and category pass their checks under the
   configuration of the call *)
OtherFieldsGood(t) ==
    /\ t.date = GoodDate
    /\ t.description = GoodDescription
    /\ (t.amount.cents # 0 \/ allow_zero_amounts)

Unlabelled(t) == t.category \in {None, BlankCategory}

(* C17: validate_transaction rejects (returns false, or raises in strict mode)
   every transaction of type unknown, whatever its other fields; a credit or
   debit transaction whose category is absent or blank is accepted exactly when
   its date, amount and description are good, and is never counted as
   invalid_category; no survivor list holds a transaction of type unknown. *)
C17_UnknownRejectedMissingCategoryTolerated ==
    /\ pc \in {"v_one_returned", "v_one_raised"} =>
           \A t \in {v_input[1]} :
               /\ t.type = UNKNOWN => v_ret # Some(TRUE)
               /\ t.type # UNKNOWN /\ Unlabelled(t) =>
                      /\ validation_stats.invalid_category = 0
                      /\ v_ret = Some(TRUE) <=> OtherFieldsGood(t)
    /\ pc = "v_all_returned" =>
           /\ \A i \in 1..Len(valid_transactions[1]) :
                  valid_transactions[1][i].type # UNKNOWN
           /\ \A i \in 1..Len(v_input) :
                  (v_input[i].type # UNKNOWN /\ Unlabelled(v_input[i])
                   /\ OtherFieldsGood(v_input[i]))
                  => \E j \in 1..Len(valid_transactions[1]) :
                         valid_transactions[1][j] = v_input[i]

(* validate_transaction accepted a debit transaction whose category is blank *)
C17_Witness ==
    /\ pc = "v_one_returned"
    /\ v_ret = Some(TRUE)
    /\ v_input[1].type = DEBIT
    /\ v_input[1].category = BlankCategory

(* The index of the first transaction of v_input that the validator must
   reject under the configuration of the call; 0 when there is none *)
FirstInvalid ==
    IF \E i \in 1..Len(v_input) :
           ~(OtherFieldsGood(v_input[i]) /\ v_input[i].type # UNKNOWN)
    THEN CHOOSE i \in 1..Len(v_input) :
           /\ ~(OtherFieldsGood(v_input[i]) /\ v_input[i].type # UNKNOWN)
           /\ \A j \in 1..(i - 1) :
                  OtherFieldsGood(v_input[j]) /\ v_input[j].type # UNKNOWN
    ELSE 0

ListCallDone == pc \in {"v_all_returned", "v_all_raised"}

(* C18: in lenient mode validate_transactions never raises and validates every
   transaction of the list (total_validated is the length of the list, and the
   transactions after an invalid one are still accepted or counted invalid);
   in strict mode a list with an invalid transaction raises at the first one:
   total_validated is its position, nothing is counted after it, and no
   survivor list is returned. *)
C18_LenientContinuesStrictRaises ==
    ListCallDone =>
        /\ ~strict_mode =>
               /\ pc = "v_all_returned"
               /\ valid_transactions # None
               /\ validation_stats.total_validated = Len(v_input)
               /\ validation_stats.valid + validation_stats.invalid = Len(v_input)
               /\ validation_stats.valid = Len(valid_transactions[1])
        /\ strict_mode /\ FirstInvalid # 0 =>
               /\ pc = "v_all_raised"
               /\ valid_transactions = None
               /\ validation_stats.total_validated = FirstInvalid
               /\ validation_stats.invalid = 1
               /\ validation_stats.valid = FirstInvalid - 1
        /\ strict_mode /\ FirstInvalid = 0 =>
               /\ pc = "v_all_returned"
               /\ valid_transactions = Some(v_input)

(* A strict call raised at the second of three transactions, the third being
   valid and never validated. *)
C18_Witness ==
    /\ pc = "v_all_raised"
    /\ strict_mode
    /\ Len(v_input) = 3
    /\ FirstInvalid = 2
    /\ OtherFieldsGood(v_input[3]) /\ v_input[3].type # UNKNOWN
    /\ validation_stats.total_validated = 2
    /\ valid_transactions = None

(* A lenient call dropped the first of three transactions and accepted the
   third. *)
C18_WitnessLenient ==
    /\ pc = "v_all_returned"
    /\ ~strict_mode
    /\ Len(v_input) = 3
    /\ FirstInvalid = 1
    /\ validation_stats.total_validated = 3
    /\ valid_transactions # None
    /\ v_input[3] \in Range(valid_transactions[1])

FreshStats ==
    [total_validated |-> 0, valid |-> 0, invalid |-> 0, invalid_date |-> 0,
     invalid_amount |-> 0, invalid_description |-> 0, invalid_category |-> 0]

(* validate_transaction returns true for t under the configuration the step
   sets *)
AcceptedAlone(t) ==
    validate_transaction([strict_mode |-> FALSE,
                          allow_zero_amounts |-> allow_zero_amounts'],
                         FreshStats, t).ret

(* C19: a lenient validate_transactions call returns exactly the transactions
   of its argument for which validate_transaction returns true, each once and
   in their original order, and leaves the argument list and its transactions
   as they were. *)
C19_SurvivorsInOrder ==
    [][(pc' \in {"v_all_returned", "v_all_raised"} /\ ~strict_mode') =>
        /\ pc' = "v_all_returned"
        /\ valid_transactions' = Some(SelectSeq(v_input, AcceptedAlone))
        /\ v_input' = v_input]_vars

(* A lenient call on three transactions returned the first and the third, the
   second being invalid. *)
C19_Witness ==
    /\ pc = "v_all_returned"
    /\ ~strict_mode
    /\ Len(v_input) = 3
    /\ v_input[1] # v_input[3]
    /\ valid_transactions = Some(<<v_input[1], v_input[3]>>)

IsPrefix(s, t) == Len(s) <= Len(t) /\ SubSeq(t, 1, Len(s)) = s

(* The step is a round of the loop in which _process_line raised / returned *)
RaisingStep == Len(faulted') = Len(faulted) + 1 /\ faulted'[Len(faulted')]
ReturningStep == Len(faulted') = Len(faulted) + 1 /\ ~faulted'[Len(faulted')]

(* C20: a line whose processing raises does not end the scan: the loop goes
   on (the call has not returned), the line is counted, and the transactions
   emitted so far stay, then and in every later step; a later line is
   processed as _process_line processes it; and when the call returns,
   lines_processed is the number of lines of the text and the output holds
   the emitted transactions. *)
C20_RaisingLineSkipped ==
    [][/\ RaisingStep =>
              /\ pc' = "scan"
              /\ result' = None
              /\ stats'.lines_processed = stats.lines_processed + 1
       /\ IsPrefix(transactions, transactions')
       /\ (ReturningStep /\ Faults > 0) =>
              \E raw \in {last_line'[1]} :
                  Self' = _process_line([Self EXCEPT !.stats.lines_processed = @ + 1], raw)
       /\ pc' = "returned" =>
              /\ stats'.lines_processed = Len(faulted')
              /\ result' # None
              /\ IsPrefix(transactions, result'[1])]_vars

(* Header, anchor, anchor (the first transaction is emitted), then a third
   anchor on which _process_line raised at its end, then a description line,
   and the call returned: all three transactions are in the output, the
   description line after the raising line was merged, and the five lines are
   counted. *)
C20_Witness ==
    /\ pc = "returned"
    /\ faulted = <<FALSE, FALSE, FALSE, TRUE, FALSE>>
    /\ last_line = Some(L_desc1)
    /\ accepted = 3
    /\ stats.lines_processed = 5
    /\ stats.multi_line_merges = 1
    /\ result # None
    /\ Len(result[1]) = 3

(* month is written YYYY-MM: four digits, a hyphen, a month 01..12 *)
IsYearMonth(month) ==
    /\ Len(month) = 7
    /\ month[5] = "-"
    /\ \A i \in {1, 2, 3, 4, 6, 7} : month[i] \in Digit
    /\ DigitsToNat(SubSeq(month, 6, 7)) \in 1..12

(* the months of the two arguments, counted from year 0 *)
MonthNumber(month) ==
    12 * DigitsToNat(SubSeq(month, 1, 4)) + DigitsToNat(SubSeq(month, 6, 7))

StructuralMisuse(args) ==
    \/ args.keywords.kind # "list"
    \/ args.keywords.items = <<>>
    \/ ~IsYearMonth(args.start_month)
    \/ ~IsYearMonth(args.end_month)
    \/ MonthNumber(args.start_month) > MonthNumber(args.end_month)

(* C21: process raises ValueError for structural misuse (keywords empty or not
   a list, a month not written YYYY-MM, start_month after end_month) before
   any stage runs: nothing is loaded, extracted or reported and the run
   statistics stay zero; a call whose only peculiarity is start_month =
   end_month is not rejected. *)
C21_MisuseRaisesValueError ==
    pc = "p_done" =>
        /\ StructuralMisuse(p_args) =>
               /\ p_out[1].error = Some("ValueError")
               /\ p_out[1].calls = <<>>
               /\ p_out[1].report = None
               /\ p_out[1].stats = RunStats
        /\ (/\ ~StructuralMisuse(p_args)
            /\ p_args.start_month = p_args.end_month
            /\ p_args.pdf_exists /\ p_args.output_is_pdf
            /\ \A i \in 1..Len(p_args.keywords.items) :
                   Strip(p_args.keywords.items[i]) # <<>>
            /\ ~p_args.load_fails /\ ~p_args.report_fails)
           => p_out[1].error = None

(* text is one or more digits, a point and exactly two digits *)
IsPlainDecimal(text) ==
    /\ Len(text) >= 4
    /\ text[Len(text) - 2] = "."
    /\ \A i \in (1..Len(text)) \ {Len(text) - 2} : text[i] \in Digit

(* the cents a plain decimal stands for *)
PlainCents(text) ==
    100 * DigitsToNat(SubSeq(text, 1, Len(text) - 3))
        + DigitsToNat(SubSeq(text, Len(text) - 1, Len(text)))

(* C22: for every amount in whole cents, the one apply_sign_to_amount gives for
   a zero magnitude under debit included, format_amount_display begins with
   "+" when the amount is >= 0 and with "-" otherwise, what follows the sign
   is digits with exactly two fractional digits, and reading them and
   reapplying the sign gives the amount back to the cent. *)
C22_DisplayRoundTrip ==
    pc \in {"m_shown", "m_signed_shown"} =>
        \E display \in {m_display[1]} :
            /\ display[1] = (IF GE0(m_amount) THEN "+" ELSE "-")
            /\ IsPlainDecimal(Tail(display))
            /\ PlainCents(Tail(display)) = m_amount.cents

IsBlankText(lines) == \A i \in 1..Len(lines) : \A k \in 1..Len(lines[i]) : lines[i][k] \in {" ", "\t"}

(* C23: every call of extract_transactions on an empty or whitespace-only
   text returns the empty list (it does not raise) and processes no line: the
   counters are zero after it, and the extractor holds no transaction, no
   category and no draft. *)
C23_BlankTextYieldsNothing ==
    IsBlankText(run_text) =>
        /\ \A i \in 1..Len(run_calls) :
               /\ run_calls[i].result = <<>>
               /\ run_calls[i].stats = [lines_processed |-> 0, category_changes |-> 0,
                                        transactions_found |-> 0, multi_line_merges |-> 0]
        /\ transactions = <<>> /\ current_transaction = None /\ pending_date = None
        /\ current_state = UNKNOWN /\ state_history = <<>>

(* The function was called on the text "\n\t\n" and returned the empty list. *)
C23_Witness ==
    /\ pc = "r_called"
    /\ run_text = <<<<>>, S2C("\t"), <<>>>>
    /\ Len(run_calls) = 1
    /\ run_calls[1].by = "function"
    /\ result = Some(<<>>)
    /\ stats.lines_processed = 0

(* C24: every transaction the extractor has emitted, from the anchor path or
   from a stacked draft and after any number of continuation lines, has a
   description that is not empty, and so has the anchor in progress; a stacked
   draft without description lines is emitted with the placeholder. *)
C24_DescriptionNeverEmpty ==
    [][/\ \A i \in 1..Len(transactions') :
              /\ transactions'[i].description # <<>>
              /\ transactions'[i].description = Strip(transactions'[i].description)
       /\ current_transaction' # None => current_transaction'[1].description # <<>>
       /\ (StackedCount(origin') # StackedCount(origin) /\ pending_description = <<>>)
              => transactions'[Len(transactions')].description = NoDescription]_vars

(* A stacked draft without description lines was emitted with the placeholder,
   then an anchor with one continuation line was emitted at the end of the
   text. *)
C24_Witness ==
    /\ pc = "returned"
    /\ Len(transactions) = 2
    /\ origin[1].kind = "stacked" /\ origin[2].kind = "anchor"
    /\ transactions[1].description = NoDescription
    /\ stats.multi_line_merges = 1
    /\ transactions[2].description = S2C("ATM 20.00 PAYROLL ACME")

(* The step processed a line that qualifies as an anchor (leading date and an
   amount token) in the single-line path: a category is active and no draft
   is pending *)
AnchorLineStep ==
    /\ LineStep
    /\ current_state # UNKNOWN
    /\ pending_date = None
    /\ \E line \in {TheLine} :
           /\ DATE_PATTERN(line) > 0
           /\ DATE_PATTERN(line) < Len(line)
           /\ \E p \in 1..Len(line) : AmountMatchEnd(line, p) > 0
           /\ ToLower(line) \notin COLUMN_HEADERS

(* The text between the date and the last amount token of the anchor line *)
AnchorDescriptions(line) ==
    LET remaining == Strip(SubSeq(line, DATE_PATTERN(line) + 1, Len(line)))
    IN  {Strip(SubSeq(remaining, 1, p - 1)) :
            p \in {q \in 1..Len(remaining) : LastTokenAt(remaining, q)}}

SummaryKeywords == {S2C("total"), S2C("subtotal"), S2C("balance")}

Meaningless(description) ==
    \/ Len(description) < 3
    \/ \E keyword \in SummaryKeywords : Contains(ToLower(description), keyword)

(* C25: an anchor line whose description is empty, shorter than 3 characters
   or holds a summary keyword in any letter case starts no in-progress anchor
   and puts nothing of its own in the output, whatever its amount; an anchor
   line with any other description is accepted whatever the size of its
   amount. *)
C25_MeaninglessAnchorRejected ==
    [][AnchorLineStep =>
          \E line \in {TheLine} : \A description \in AnchorDescriptions(line) :
              /\ Meaningless(description) =>
                     /\ current_transaction' = None
                     /\ accepted' = accepted
                     /\ Len(transactions') =
                            Len(transactions) + (IF current_transaction = None THEN 0 ELSE 1)
                     /\ SubSeq(transactions', 1, Len(transactions)) = transactions
                     /\ \A i \in (Len(transactions) + 1)..Len(transactions') :
                            origin'[i].kind = "anchor" /\ origin'[i].id <= accepted
              /\ ~Meaningless(description) =>
                     /\ accepted' = accepted + 1
                     /\ current_transaction' # None
                     /\ current_transaction'[1].description = description]_vars

(* After an accepted anchor, an anchor line with a summary keyword and an
   amount of 21 million was rejected (the earlier anchor was emitted, none is
   in progress); and the run ended with that one transaction. *)
C25_Witness ==
    /\ pc = "returned"
    /\ last_line = Some(S2C("01/07 Daily balance 21,000,000.00"))
    /\ accepted = 1
    /\ Len(transactions) = 1
    /\ stats.lines_processed = 3

(* The step processed, in the single-line path (a category is active, no
   draft is pending), a line that is a continuation line *)
ContinuationLineStep ==
    /\ LineStep
    /\ current_state # UNKNOWN
    /\ pending_date = None
    /\ \E line \in {TheLine} :
           /\ ToLower(line) \notin COLUMN_HEADERS
           /\ ~_is_transaction_anchor(line)
           /\ _is_continuation_line(Self, line).ret

(* C26: when a line qualifies as an anchor in the single-line path while an
   anchor is in progress, that anchor is emitted (appended to the output with
   its own date, description and amount) and is no longer the one in
   progress, also when the new line is rejected; after a rejected anchor no
   anchor is in progress; and a continuation line that arrives while no
   anchor is in progress is appended to no transaction. *)
C26_InProgressEmittedBeforeParsing ==
    [][/\ (AnchorLineStep /\ current_transaction # None) =>
              \E old \in {current_transaction[1]} :
                  /\ Len(transactions') = Len(transactions) + 1
                  /\ SubSeq(transactions', 1, Len(transactions)) = transactions
                  /\ \E t \in {transactions'[Len(transactions')]} :
                         /\ t.date = old.date
                         /\ t.description = Strip(old.description)
                         /\ t.amount = old.amount
                  /\ origin'[Len(origin')].kind = "anchor"
                  /\ stats'.transactions_found = stats.transactions_found + 1
                  /\ accepted' = accepted => current_transaction' = None
                  /\ accepted' # accepted =>
                         /\ current_transaction' # None
                         /\ current_transaction'[1].description \in AnchorDescriptions(TheLine)
       /\ (AnchorLineStep /\ accepted' = accepted) => current_transaction' = None
       /\ (ContinuationLineStep /\ current_transaction = None) =>
              /\ current_transaction' = None
              /\ transactions' = transactions
              /\ stats'.multi_line_merges = stats.multi_line_merges]_vars

(* An accepted anchor was followed by a rejected one and then by a
   continuation line: the run returned the first anchor alone, with its
   description as on its own line and no line merged. *)
C26_Witness ==
    /\ pc = "returned"
    /\ last_line = Some(L_desc1)
    /\ stats.lines_processed = 4
    /\ accepted = 1
    /\ Len(transactions) = 1
    /\ transactions[1].description = S2C("ATM")
    /\ stats.multi_line_merges = 0

(* The step processed, while a stand-alone-date draft was pending, a line
   that is not blank, a column header, a category header, a date-only line or
   an amount-only line *)
DraftTextStep ==
    /\ LineStep
    /\ pending_date # None
    /\ \E line \in {TheLine} :
           /\ line # <<>>
           /\ ToLower(line) \notin COLUMN_HEADERS
           /\ ~update_state(line, CategoryOf(Self)).ret
           /\ ~(DATE_PATTERN(line) > 0 /\ DATE_PATTERN(line) = Len(line))
           /\ AmountOnlyMatch(line) = None

(* C27: while a stand-alone-date draft is pending, a line that is not blank,
   a column header, a category header, a date-only line or an amount-only
   line is accumulated into the draft's description, also when it has a
   leading date and an amount or would continue the anchor in progress; the
   step starts, extends and emits no anchor transaction. *)
C27_DraftTakesPriority ==
    [][DraftTextStep =>
          /\ pending_description' = Append(pending_description, TheLine)
          /\ pending_date' = pending_date
          /\ current_transaction' = current_transaction
          /\ transactions' = transactions
          /\ accepted' = accepted
          /\ stats' = [stats EXCEPT !.lines_processed = @ + 1]]_vars

(* With the anchor "01/06 ATM 20.00" in progress and a draft pending, a line
   with a leading date and an amount went into the draft: the anchor in
   progress is the same, nothing is emitted. *)
C27_Witness ==
    /\ pc = "scan"
    /\ last_line = Some(S2C("01/08 WIRE 21,000,000.00"))
    /\ pending_date = Some(L_date)
    /\ pending_description = <<S2C("01/08 WIRE 21,000,000.00")>>
    /\ current_transaction # None
    /\ current_transaction[1].description = S2C("ATM")
    /\ accepted = 1
    /\ transactions = <<>>

(* The same with a line that would continue the anchor in progress *)
C27_WitnessContinuation ==
    /\ pc = "scan"
    /\ last_line = Some(L_desc1)
    /\ pending_date = Some(L_date)
    /\ pending_description = <<L_desc1>>
    /\ current_transaction # None
    /\ current_transaction[1].description = S2C("ATM")
    /\ stats.multi_line_merges = 0
    /\ transactions = <<>>

(* A bare month/day token: digits, one separator the date pattern accepts,
   digits, and nothing else *)
BareDate(date) ==
    /\ DATE_PATTERN(date) = Len(date)
    /\ Cardinality({i \in 1..Len(date) : date[i] \in {"/", "-"}}) = 1

(* C28: no emitted transaction keeps a bare month/day token as its date: a
   transaction whose date token carried no year has the date completed as
   MM/DD/<current year>, from a stacked draft and from a single-line anchor
   alike. *)
C28_BareDateGetsCurrentYear ==
    \A i \in 1..Len(transactions) : ~BareDate(transactions[i].date)

(* C29: every date string the extractor stores in an emitted transaction, for
   a calendar-valid date in any layout of its date pattern, passes the
   validator's date check: the lenient validator drops none of the
   transactions of such a run. *)
C29_ValidatorAcceptsExtractorDates ==
    pc = "validated" =>
        /\ \A i \in 1..Len(result[1]) : _validate_date(result[1][i].date)
        /\ valid_transactions = result

(* C30: for every date string in a layout the extractor accepts,
   _extract_month returns the zero-padded YYYY-MM of that date (4-digit year
   kept, 2-digit year mapped by the 00-49 / 50-99 rule, current year for a
   bare month/day, own year and month for a year-first date), and the date
   string itself is unchanged. *)
C30_ExtractMonthCanonical ==
    pc = "em_done" =>
        /\ CanonicalMonth(em_date_str) # None
        /\ em_month = CanonicalMonth(em_date_str)

(* The violation kind under which a transaction of AllValidatorTxns must be
   counted: the first failing check in the order date, amount, description,
   type/category; "valid" when no check fails *)
FirstFailing(t, zero) ==
    IF t.date = BadDate THEN "invalid_date"
    ELSE IF t.amount.cents = 0 /\ ~zero THEN "invalid_amount"
    ELSE IF t.description = BadDescription THEN "invalid_description"
    ELSE IF t.type = UNKNOWN THEN "invalid_category"
    ELSE "valid"

ViolationKinds ==
    {"invalid_date", "invalid_amount", "invalid_description", "invalid_category"}

(* C31, the counters: after any sequence of validate_transaction calls on one
   validator, raising calls included, total_validated = valid + invalid and
   invalid is the sum of the four violation counters. *)
C31_CountersAddUp ==
    /\ validation_stats.total_validated =
           validation_stats.valid + validation_stats.invalid
    /\ validation_stats.invalid =
           validation_stats.invalid_date + validation_stats.invalid_amount
           + validation_stats.invalid_description + validation_stats.invalid_category

(* C31: the counters add up after every call, and each call counts its
   transaction once: a rejected transaction under exactly one violation kind,
   the first failing check in the order date, amount, description,
   type/category, in lenient and in strict mode alike. *)
C31_OneKindPerRejection ==
    [][pc' \in {"c_returned", "c_raised"} =>
          \E t \in {v_input'[1]} : \E kind \in {FirstFailing(t, allow_zero_amounts)} :
              /\ C31_CountersAddUp'
              /\ validation_stats'.total_validated = validation_stats.total_validated + 1
              /\ \A k \in ViolationKinds \cup {"valid"} :
                     validation_stats'[k] = validation_stats[k] + (IF k = kind THEN 1 ELSE 0)
              /\ validation_stats'.invalid =
                     validation_stats.invalid + (IF kind = "valid" THEN 0 ELSE 1)
              /\ (pc' = "c_raised") <=> (strict_mode /\ kind # "valid")]_vars

(* A strict validator raised twice and accepted once: a transaction with a bad
   date and a bad description was counted under the date only *)
C31_Witness ==
    /\ pc = "c_raised"
    /\ strict_mode
    /\ validation_stats.total_validated = 3
    /\ validation_stats.valid = 1
    /\ validation_stats.invalid = 2
    /\ validation_stats.invalid_date = 1
    /\ validation_stats.invalid_category = 1
    /\ v_input[1].date = BadDate /\ v_input[1].description = BadDescription

(* C32: the amount check, reached by every transaction with a good date,
   rejects an amount iff it is zero and allow_zero_amounts is false; a
   non-zero amount of any magnitude and sign passes it, so a transaction
   whose other fields are good is accepted. *)
C32_ZeroRejectedUnlessAllowed ==
    [][(pc' \in {"c_returned", "c_raised"} /\ v_input'[1].date = GoodDate) =>
          \E t \in {v_input'[1]} :
              /\ (validation_stats'.invalid_amount = validation_stats.invalid_amount + 1)
                     <=> (t.amount.cents = 0 /\ ~allow_zero_amounts)
              /\ validation_stats'.invalid_amount \in
                     {validation_stats.invalid_amount, validation_stats.invalid_amount + 1}
              /\ (t.amount.cents # 0 \/ allow_zero_amounts)
                     /\ t.description = GoodDescription /\ t.type # UNKNOWN
                     => v_ret' = Some(TRUE)]_vars

(* A strict validator that rejects zero accepted a debit of minus 21 million *)
C32_Witness ==
    /\ pc = "c_returned"
    /\ strict_mode /\ ~allow_zero_amounts
    /\ v_ret = Some(TRUE)
    /\ v_input[1].amount = [neg |-> TRUE, cents |-> 2100000000]
    /\ validation_stats.invalid_amount = 1

(* Every continuation condition on a line: no leading date, not a category
   header, not a stand-alone amount, no stop keyword, at least one letter, and
   a first character that is whitespace or alphanumeric *)
ContinuationConditions(line) ==
    /\ line # <<>>
    /\ DATE_PATTERN(line) = 0
    /\ ~update_state(line, CategoryOf(Self)).ret
    /\ ~StandaloneAmount(line)
    /\ ~\E keyword \in stop_keywords : Contains(ToLower(line), keyword)
    /\ \E i \in 1..Len(line) : line[i] \in Alpha
    /\ line[1] \in (Whitespace \cup WordChar)

(* The step appended a line to the anchor in progress: a merge was counted, or
   the anchor in progress is the one of before with another description *)
AppendedStep ==
    \/ stats'.multi_line_merges # stats.multi_line_merges
    \/ /\ current_transaction # None /\ current_transaction' # None
       /\ accepted' = accepted
       /\ current_transaction'[1].description # current_transaction[1].description

(* C33: a line is appended as a continuation only when an anchor is in
   progress, no draft is pending and the line meets every continuation
   condition; the line is then appended after a single space, multi_line_merges
   grows by one, and the date, amount, type and category of the anchor, and
   the output list, are unchanged. *)
C33_ContinuationAppendsOnly ==
    [][AppendedStep =>
          /\ LineStep
          /\ current_transaction # None
          /\ pending_date = None
          /\ ContinuationConditions(TheLine)
          /\ current_transaction' =
                 Some([current_transaction[1] EXCEPT
                          !.description = @ \o <<" ">> \o TheLine])
          /\ stats'.multi_line_merges = stats.multi_line_merges + 1
          /\ transactions' = transactions
          /\ accepted' = accepted]_vars

(* The lines that reach the continuation rule and meet the conditions are
   appended *)
C33_QualifyingLineAppended ==
    [][(/\ LineStep
        /\ current_state # UNKNOWN
        /\ current_transaction # None
        /\ pending_date = None
        /\ ToLower(TheLine) \notin COLUMN_HEADERS
        /\ ContinuationConditions(TheLine)) => AppendedStep]_vars

(* Two continuation lines followed an anchor: its description holds them in
   arrival order, a space before each, and two merges are counted. *)
C33_Witness ==
    /\ pc = "returned"
    /\ stats.multi_line_merges = 2
    /\ Len(transactions) = 1
    /\ transactions[1].description = S2C("ATM 20.00 PAYROLL ACME REF 7731")
    /\ transactions[1].date = S2C("01/06")

(* C34: a category header closes the transactions of the section before it:
   a line is appended only to an anchor of the current section (its type and
   category are those of the most recent header), and every transaction that
   a step emits carries the polarity and the category label of the most
   recent header. *)
C34_HeaderClosesSection ==
    [][/\ AppendedStep =>
              /\ current_transaction[1].type = current_state
              /\ current_transaction[1].category = current_category
       /\ \A i \in (Len(transactions) + 1)..Len(transactions') :
              /\ transactions'[i].type = current_state'
              /\ transactions'[i].category = current_category']_vars

(* The transaction has the date of the date token that starts the line, as it
   is or completed with the current year *)
DateBorneBy(t, raw) ==
    LET line == Strip(raw)
        token == SubSeq(line, 1, DATE_PATTERN(line))
    IN  /\ token # <<>>
        /\ t.date \in {token, token \o <<"/">> \o NatToStr(CurrentYear)}

(* The transactions from i on can be assigned, in their order, to
   date-bearing lines from j on that occur in the same order *)
RECURSIVE InSourceOrder(_, _, _, _)
InSourceOrder(txns, i, lines, j) ==
    IF i > Len(txns) THEN TRUE
    ELSE IF j > Len(lines) THEN FALSE
    ELSE IF DateBorneBy(txns[i], lines[j]) THEN InSourceOrder(txns, i + 1, lines, j + 1)
    ELSE InSourceOrder(txns, i, lines, j + 1)

(* C35: the returned list is in source order: its transactions can be
   matched, one after the other, to date-bearing lines (anchor lines or
   stand-alone date lines) that occur in the same order in the text, for every
   interleaving of single-line anchors and stacked drafts. *)
C35_OutputInSourceOrder ==
    pc = "r_called" => InSourceOrder(result[1], 1, run_text, 1)

KeyOfType(transaction_type) ==
    IF transaction_type = CREDIT THEN KeyDeposits ELSE KeyWithdrawals

(* The transactions of a bank that belong to a month and a sub-list, in input
   order *)
PlacedUnder(bank, canonical, key) ==
    LET Belongs(t) ==
            /\ t.type \in {CREDIT, DEBIT}
            /\ KeyOfType(t.type) = key
            /\ CanonicalMonth(t.date) = Some(canonical)
    IN  SelectSeq(g_input[bank], Belongs)

(* C36: group_by_bank_month_type loses and duplicates nothing it can place:
   each credit or debit transaction with a canonical month is in the result
   under its bank and its canonical month, in deposits iff it is a credit and
   in withdrawals iff it is a debit; each sub-list of the result holds only
   such transactions, once each and in input order. *)
C36_GroupingLosesNothing ==
    pc = "g_done" =>
        /\ \A bank \in DOMAIN g_input : \A i \in 1..Len(g_input[bank]) :
               \E t \in {g_input[bank][i]} :
                   (t.type \in {CREDIT, DEBIT} /\ CanonicalMonth(t.date) # None) =>
                       /\ bank \in DOMAIN g_result[1]
                       /\ CanonicalMonth(t.date)[1] \in DOMAIN g_result[1][bank]
                       /\ KeyOfType(t.type) \in
                              DOMAIN g_result[1][bank][CanonicalMonth(t.date)[1]]
        /\ \A bank \in DOMAIN g_result[1] : \A m \in DOMAIN g_result[1][bank] :
               \A key \in DOMAIN g_result[1][bank][m] :
                   g_result[1][bank][m][key] = PlacedUnder(bank, m, key)

(* The month arguments of the call are a misuse: one is empty or not of the
   form YYYY-MM, or the start is after the end *)
RangeMisuse ==
    \/ d_start = <<>> \/ d_end = <<>>
    \/ ~IsYearMonth(d_start) \/ ~IsYearMonth(d_end)
    \/ ~StrLE(d_start, d_end)

(* C37: filter_by_date_range called with start_month after end_month, or with
   a month argument that is empty or not in YYYY-MM form, raises to its caller
   and returns no list. *)
C37_RangeMisuseRaises ==
    (pc = "d_done" /\ RangeMisuse) => d_result = None

(* C39: in a completed run of process the stages run in the order load,
   extract, validate, keyword filter, date filter, group, report, and the
   statistics satisfy total_extracted >= valid_transactions =
   after_keyword_filter >= after_date_filter = final_output, final_output being
   the number of transactions in the grouped structure handed to the report
   writer *)
C39_StagesAndStatistics ==
    (pc = "p_done" /\ p_out[1].error = None) =>
        /\ p_out[1].calls = <<"load", "extract", "validate", "keywords", "dates",
                              "group", "report">>
        /\ p_out[1].stats.total_extracted >= p_out[1].stats.valid_transactions
        /\ p_out[1].stats.valid_transactions = p_out[1].stats.after_keyword_filter
        /\ p_out[1].stats.after_keyword_filter >= p_out[1].stats.after_date_filter
        /\ p_out[1].stats.after_date_filter = p_out[1].stats.final_output
        /\ p_out[1].stats.final_output = total_txns(p_out[1].report[1].grouped_data)

(* What one upload gives when it is the only document of a request *)
AloneCandidates(upload) ==
    IF upload.load_fails THEN <<>>
    ELSE extract_transactions(TransactionExtractor, upload.text).result

RECURSIVE InInputOrder(_, _)
InInputOrder(files, i) ==
    IF i > Len(files) THEN <<>>
    ELSE AloneCandidates(files[i]) \o InInputOrder(files, i + 1)

(* C38: when a request with several documents gets past its uploads, the
   candidate list handed to validation is the concatenation, in input order, of
   what each document gives when extracted alone with a fresh extractor; a
   document whose loading raises gives nothing and is reported with its error,
   and every other document is still processed *)
C38_DocumentsIndependent ==
    (pc = "a_done" /\ p_out[1].code = 200) =>
        /\ p_out[1].all_transactions = InInputOrder(p_args.files, 1)
        /\ Len(p_out[1].pdf_info) = Len(p_args.files)
        /\ \A i \in 1..Len(p_args.files) :
               IF p_args.files[i].load_fails
               THEN p_out[1].pdf_info[i].error # None
               ELSE p_out[1].pdf_info[i].transactions_extracted =
                        Some(Len(AloneCandidates(p_args.files[i])))

(* C38 witness: a document ending in a section header, then a document that
   fails to load, then a document that gives a transaction *)
C38_Witness ==
    /\ pc = "a_done" /\ p_out[1].code = 200
    /\ Len(p_args.files) = 3
    /\ p_args.files[1].text = U_header /\ ~p_args.files[1].load_fails
    /\ p_args.files[2].load_fails
    /\ ~p_args.files[3].load_fails /\ AloneCandidates(p_args.files[3]) # <<>>
    /\ Len(p_out[1].all_transactions) = 2

(* C40: every temporary file the handler created for an upload is deleted
   when the handler finishes, whatever the exit path *)
C40_NoTemporaryFileLeft ==
    pc = "a_done" => p_out[1].remaining = {}

====
